---- MODULE Spec2Model ----
(***************************************************************************)
(* A model of the radiate-ai retrieval and embedding pipeline:             *)
(*   - EmbeddingProvider (content cache, usage counters, cost model),      *)
(*   - chunk_text (fixed token-window chunking),                           *)
(*   - HybridRetriever._reciprocal_rank_fusion,                            *)
(*   - the concurrent batch embedding entry point used by the async        *)
(*     ingester.                                                           *)
(* Each component has its own specification over the shared variables.     *)
(***************************************************************************)
EXTENDS Integers, Sequences, FiniteSets, TLC

VARIABLES
    \* ---- EmbeddingProvider (src/radiate/embeddings.py) ----
    provider,            \* "local" | "openai": which subclass was constructed
    cost_per_1k_tokens,  \* OpenAIEmbeddings.cost_per_1k_tokens, in 1e-5 dollars
    cache,               \* self.cache: digest -> vector (NoVec: key absent)
    total_embeddings,    \* self.total_embeddings
    cached_embeddings,   \* self.cached_embeddings
    total_cost,          \* self.total_cost, in units of 1e-9 dollars
    backend_calls,       \* number of _embed_single invocations so far
    returned,            \* text -> vector the latest successful embed(text) returned
    computed,            \* text -> vector the backend produced for that text
    last,                \* the latest public call: arguments, outcome, pre-state
    \* ---- chunk_text (src/radiate/ingest.py) ----
    ck,                  \* the running call: tokens, parameters, loop state
    \* ---- _reciprocal_rank_fusion (src/radiate/retrieval.py) ----
    rrf,                 \* inputs and result of the latest fusion
    \* ---- concurrent batch embedding ----
    ab,                  \* the running embed_batch_async call
    \* ---- search entry points (retrieval.py, query.py, core.py) ----
    sr,                  \* the index's answer and the latest search call
    \* ---- ingestion (ingest.py, ingest_async.py) ----
    ing,                 \* the running directory ingestion
    \* ---- Qdrant and the Radiate instances (core.py) ----
    qd,                  \* the collections of the vector index
    rad,                 \* the Radiate instances and the latest call on one
    \* ---- BM25 (src/radiate/retrieval.py) ----
    bm,                  \* a BM25 object and the latest call on it
    \* ---- HybridRetriever (src/radiate/retrieval.py) ----
    hr,                  \* one retriever, its BM25 object, the latest search
    \* ---- threads calling embed on one provider ----
    th                   \* the position and locals of each thread

vars == << provider, cost_per_1k_tokens, cache, total_embeddings,
           cached_embeddings, total_cost, backend_calls, returned, computed,
           last, ck, rrf, ab, sr, ing, qd, rad, bm, hr, th >>

pipelineVars == << sr, ing, qd, rad, bm, hr, th >>

providerVars == << provider, cost_per_1k_tokens, cache, total_embeddings,
                   cached_embeddings, total_cost, backend_calls, returned,
                   computed, last >>

(***************************************************************************)
(* Bounds of the model.                                                    *)
(***************************************************************************)
MaxCalls == 3        \* embed invocations (direct or inside a batch) per run
MaxBatch == 2        \* longest list handed to embed_batch

(***************************************************************************)
(* Texts.  A text is a tuple of characters; SP is a whitespace character.  *)
(***************************************************************************)
SP == " "

Texts ==
    { << >>, <<SP>>, <<"a">>, <<"a", SP>>, <<"a", SP, "b">>, <<"b">> }

IsSpace(c) == c = SP

\* str.strip(): drop leading and trailing whitespace
RECURSIVE LStrip(_)
LStrip(s) ==
    IF s = << >> THEN << >>
    ELSE IF IsSpace(Head(s)) THEN LStrip(Tail(s)) ELSE s

RECURSIVE RStrip(_)
RStrip(s) ==
    IF s = << >> THEN << >>
    ELSE IF IsSpace(s[Len(s)]) THEN RStrip(SubSeq(s, 1, Len(s) - 1)) ELSE s

Strip(s) == RStrip(LStrip(s))

\* len(text.split()): the number of maximal runs of non-whitespace characters
RECURSIVE WordCount(_)
WordCount(s) ==
    IF s = << >> THEN 0
    ELSE IF IsSpace(Head(s)) THEN WordCount(Tail(s))
    ELSE IF Len(s) = 1 \/ IsSpace(s[2]) THEN 1 + WordCount(Tail(s))
    ELSE WordCount(Tail(s))

IsBlank_EmptyOnly(text) == text = << >>

\* "not text or not text.strip()"
IsBlank(text) == text = << >> \/ Strip(text) = << >>

(***************************************************************************)
(* _get_cache_key: hashlib.md5(text.encode()).hexdigest() of the exact     *)
(* string, tabulated for the texts of the model.                           *)
(***************************************************************************)
CacheKey(text) ==
    CASE text = << >>              -> "d41d8cd98f00b204e9800998ecf8427e"
      [] text = <<SP>>             -> "7215ee9c7d9dc229d2921a40e899ec5f"
      [] text = <<"a">>            -> "0cc175b9c0f1b6a831c399e269772661"
      [] text = <<"a", SP>>        -> "99020cb24bd13238d907c65cc2b57c03"
      [] text = <<"a", SP, "b">>   -> "0cc9cd4dd26c5137b675a0d819cb9ab0"
      [] text = <<"b">>            -> "92eb5ffee6ae2fec3ad71c777531578f"

Keys == { CacheKey(t) : t \in Texts }

(***************************************************************************)
(* The embedding backend.  One invocation of _embed_single either returns  *)
(* a vector or raises; which vector it returns is the backend's choice.    *)
(***************************************************************************)
NoVec == << >>
Vectors == { <<1, 0>>, <<0, 1>> }

BackendFailures == { "authentication", "rate_limit", "quota", "unavailable" }

BackendOutcomes ==
    [ ok : {TRUE}, vec : Vectors, failure : {"none"} ]
      \cup [ ok : {FALSE}, vec : {NoVec}, failure : BackendFailures ]

(***************************************************************************)
(* The provider's state as one record, so that the methods can be written  *)
(* as operators from a state to a state and an outcome.                    *)
(***************************************************************************)
ProviderState ==
    [ cache |-> cache,
      total_embeddings |-> total_embeddings,
      cached_embeddings |-> cached_embeddings,
      total_cost |-> total_cost,
      backend_calls |-> backend_calls,
      returned |-> returned,
      computed |-> computed ]

NoError == [ type |-> "none", cause |-> "none" ]

\* LocalEmbeddings._embed_single / OpenAIEmbeddings._embed_single.
\* The remote variant adds (len(text.split()) * 1.3 / 1000) * cost_per_1k_tokens
\* to total_cost once the API call has returned.
EmbedSingle(p, text, out) ==
    LET called == [p EXCEPT !.backend_calls = @ + 1] IN
    IF ~out.ok
      THEN [ p |-> called, ok |-> FALSE, vec |-> NoVec, failure |-> out.failure ]
      ELSE [ p |-> [called EXCEPT
                      !.total_cost =
                          IF provider = "openai"
                            THEN @ + WordCount(text) * 13 * cost_per_1k_tokens
                            ELSE @,
                      !.computed[text] = out.vec],
             ok |-> TRUE, vec |-> out.vec, failure |-> "none" ]

\* embed, lines 47-49: the key is in the cache
EmbedHit_CountsGenerated(p, text, cache_key) ==
    [ p |-> [p EXCEPT !.total_embeddings = @ + 1,
                      !.returned[text] = p.cache[cache_key]],
      status |-> "ok", error |-> NoError,
      result |-> p.cache[cache_key], hit |-> TRUE ]

EmbedHit(p, text, cache_key) ==
    [ p |-> [p EXCEPT !.cached_embeddings = @ + 1,
                      !.returned[text] = p.cache[cache_key]],
      status |-> "ok", error |-> NoError,
      result |-> p.cache[cache_key], hit |-> TRUE ]

\* embed, lines 51-58: the key is absent; every exception of the backend is
\* re-raised as RuntimeError("Embedding failed: <message>")
EmbedMiss_NotStored(p, text, cache_key, out) ==
    LET r == EmbedSingle(p, text, out) IN
    IF r.ok
      THEN [ p |-> [r.p EXCEPT !.total_embeddings = @ + 1,
                               !.returned[text] = r.vec],
             status |-> "ok", error |-> NoError,
             result |-> r.vec, hit |-> FALSE ]
      ELSE [ p |-> r.p, status |-> "error",
             error |-> [type |-> "RuntimeError", cause |-> r.failure],
             result |-> NoVec, hit |-> FALSE ]

\* the counter incremented before the backend has answered
EmbedMiss_CountsFirst(p, text, cache_key, out) ==
    LET r == EmbedSingle([p EXCEPT !.total_embeddings = @ + 1], text, out) IN
    IF r.ok
      THEN [ p |-> [r.p EXCEPT !.cache[cache_key] = r.vec,
                               !.returned[text] = r.vec],
             status |-> "ok", error |-> NoError,
             result |-> r.vec, hit |-> FALSE ]
      ELSE [ p |-> r.p, status |-> "error",
             error |-> [type |-> "RuntimeError", cause |-> r.failure],
             result |-> NoVec, hit |-> FALSE ]

EmbedMiss(p, text, cache_key, out) ==
    LET r == EmbedSingle(p, text, out) IN
    IF r.ok
      THEN [ p |-> [r.p EXCEPT !.total_embeddings = @ + 1,
                               !.cache[cache_key] = r.vec,
                               !.returned[text] = r.vec],
             status |-> "ok", error |-> NoError,
             result |-> r.vec, hit |-> FALSE ]
      ELSE [ p |-> r.p, status |-> "error",
             error |-> [type |-> "RuntimeError", cause |-> r.failure],
             result |-> NoVec, hit |-> FALSE ]

\* EmbeddingProvider.embed
Embed(p, text, out) ==
    IF IsBlank(text)
      THEN [ p |-> p, status |-> "error",
             error |-> [type |-> "ValueError", cause |-> "Cannot embed empty text"],
             result |-> NoVec, hit |-> FALSE ]
    ELSE LET cache_key == CacheKey(text) IN
      IF p.cache[cache_key] # NoVec
        THEN EmbedHit(p, text, cache_key)
        ELSE EmbedMiss(p, text, cache_key, out)

\* A backend as the answers it may give for each text.
AnyBackend == [ t \in Texts |-> BackendOutcomes ]

\* Embedding every text of a list through the cache, in order; the first
\* embed that raises ends the run.  The set of ways the run can end.
RECURSIVE EmbedEachIn(_, _, _, _, _)
EmbedEachIn(backend, p, texts, i, acc) ==
    IF i > Len(texts)
      THEN { [ p |-> p, status |-> "ok", error |-> NoError, result |-> acc ] }
    ELSE UNION {
           IF r.status = "ok"
             THEN EmbedEachIn(backend, r.p, texts, i + 1, Append(acc, r.result))
             ELSE { [ p |-> r.p, status |-> "error", error |-> r.error,
                      result |-> << >> ] }
           : r \in { Embed(p, texts[i], out) : out \in backend[texts[i]] } }

EmbedEachFrom(p, texts, i, acc) == EmbedEachIn(AnyBackend, p, texts, i, acc)

\* embed_batch with the "if text.strip()" filter left out
EmbedBatchFrom_NoFilter(p, texts, i, acc) == EmbedEachFrom(p, texts, i, acc)

\* EmbeddingProvider.embed_batch:
\*   [self.embed(text) for text in texts if text.strip()]
\* The set of ways the call can end: every embed that reaches the backend
\* branches over the backend's answers; an embed that raises ends the call.
RECURSIVE EmbedBatchIn(_, _, _, _, _)
EmbedBatchIn(backend, p, texts, i, acc) ==
    IF i > Len(texts)
      THEN { [ p |-> p, status |-> "ok", error |-> NoError, result |-> acc ] }
    ELSE IF Strip(texts[i]) = << >>
      THEN EmbedBatchIn(backend, p, texts, i + 1, acc)
    ELSE UNION {
           IF r.status = "ok"
             THEN EmbedBatchIn(backend, r.p, texts, i + 1, Append(acc, r.result))
             ELSE { [ p |-> r.p, status |-> "error", error |-> r.error,
                      result |-> << >> ] }
           : r \in { Embed(p, texts[i], out) : out \in backend[texts[i]] } }

EmbedBatchFrom(p, texts, i, acc) == EmbedBatchIn(AnyBackend, p, texts, i, acc)

EmbedBatch(p, texts) == EmbedBatchFrom(p, texts, 1, << >>)

(***************************************************************************)
(* Provider actions.                                                       *)
(***************************************************************************)
Pre == [ cache |-> cache, total_embeddings |-> total_embeddings,
         cached_embeddings |-> cached_embeddings, total_cost |-> total_cost,
         backend_calls |-> backend_calls, returned |-> returned ]

Commit(p) ==
    /\ cache' = p.cache
    /\ total_embeddings' = p.total_embeddings
    /\ cached_embeddings' = p.cached_embeddings
    /\ total_cost' = p.total_cost
    /\ backend_calls' = p.backend_calls
    /\ returned' = p.returned
    /\ computed' = p.computed

Calls == last.n

EmbedCall ==
    /\ Calls < MaxCalls
    /\ \E text \in Texts, out \in BackendOutcomes :
         LET r == Embed(ProviderState, text, out) IN
           /\ Commit(r.p)
           /\ last' = [ op |-> "embed", arg |-> text, status |-> r.status,
                        error |-> r.error, result |-> r.result, hit |-> r.hit,
                        pre |-> Pre, n |-> Calls + 1 ]
    /\ UNCHANGED << provider, cost_per_1k_tokens, ck, rrf, ab >>
    /\ UNCHANGED pipelineVars

SeqsUpTo(S, n) == UNION { [1..k -> S] : k \in 0..n }

EmbedBatchCall ==
    /\ \E texts \in SeqsUpTo(Texts, MaxBatch) :
         /\ Calls + Len(texts) <= MaxCalls
         /\ \E r \in EmbedBatch(ProviderState, texts) :
                /\ Commit(r.p)
                /\ last' = [ op |-> "embed_batch", arg |-> texts,
                             status |-> r.status, error |-> r.error,
                             result |-> r.result, hit |-> FALSE,
                             pre |-> Pre, n |-> Calls + Len(texts) ]
    /\ UNCHANGED << provider, cost_per_1k_tokens, ck, rrf, ab >>
    /\ UNCHANGED pipelineVars

\* EmbeddingProvider.__init__ and the subclass constructors
Idle == [ active |-> FALSE ]

\* the components a specification does not exercise
PipelineIdle ==
    /\ sr = Idle /\ ing = Idle /\ qd = Idle /\ rad = Idle
    /\ bm = Idle /\ hr = Idle /\ th = Idle

InitProvider ==
    /\ provider \in {"local", "openai"}
    \* "text-embedding-3-small": 0.00002, the default model of create_embeddings
    /\ cost_per_1k_tokens = IF provider = "openai" THEN 2 ELSE 0
    /\ cache = [k \in Keys |-> NoVec]
    /\ total_embeddings = 0
    /\ cached_embeddings = 0
    /\ total_cost = 0
    /\ backend_calls = 0
    /\ returned = [t \in Texts |-> NoVec]
    /\ computed = [t \in Texts |-> NoVec]
    /\ last = [ op |-> "none", arg |-> << >>, status |-> "ok", error |-> NoError,
                result |-> NoVec, hit |-> FALSE, pre |-> Pre, n |-> 0 ]

Init ==
    /\ InitProvider
    /\ ck = Idle
    /\ rrf = Idle
    /\ ab = Idle
    /\ PipelineIdle

Next == EmbedCall \/ EmbedBatchCall

Spec == Init /\ [][Next]_vars

(***************************************************************************)
(* chunk_text(text, chunk_size, overlap), src/radiate/ingest.py.           *)
(* The text is represented by its token sequence encoding.encode(text);    *)
(* token i of the text is the number i - 1, its 0-based offset, and a      *)
(* chunk is represented by the tokens that encoding.decode turns into its  *)
(* text.  One action per iteration of the while loop, one for the return.  *)
(***************************************************************************)
MaxTokens == 6       \* longest token sequence
MaxChunkSize == 4    \* largest chunk_size
MaxOverlap == 4      \* largest overlap

\* iterations after which a loop that makes no progress is cut off
MaxChunks == MaxTokens + 2

Min(a, b) == IF a < b THEN a ELSE b
Max(a, b) == IF a > b THEN a ELSE b

\* Python's seq[lo:hi] for integers lo and hi of either sign
PySlice(seq, lo, hi) ==
    LET n == Len(seq)
        l == IF lo < 0 THEN Max(lo + n, 0) ELSE Min(lo, n)
        h == IF hi < 0 THEN Max(hi + n, 0) ELSE Min(hi, n)
    IN  IF l < h THEN SubSeq(seq, l + 1, h) ELSE << >>

Encode(n) == [i \in 1..n |-> i - 1]

\* "start += chunk_size - overlap"
NextStart(start, chunk_size, overlap) == start + chunk_size - overlap

InitChunk ==
    /\ InitProvider
    /\ provider = "local"
    /\ \E n \in 0..MaxTokens, chunk_size \in 1..MaxChunkSize,
          overlap \in 0..MaxOverlap :
         ck = [ active |-> TRUE, tokens |-> Encode(n), chunk_size |-> chunk_size,
                overlap |-> overlap, start |-> 0, chunks |-> << >>,
                pc |-> "loop" ]
    /\ rrf = Idle
    /\ ab = Idle
    /\ PipelineIdle

\* lines 27-32: one iteration of "while start < len(tokens)"
ChunkLoop ==
    /\ ck.active /\ ck.pc = "loop"
    /\ ck.start < Len(ck.tokens)
    /\ Len(ck.chunks) < MaxChunks
    /\ LET end == ck.start + ck.chunk_size
           chunk_tokens == PySlice(ck.tokens, ck.start, end)
       IN ck' = [ck EXCEPT
                   !.chunks = Append(@, chunk_tokens),
                   !.start = NextStart(ck.start, ck.chunk_size, ck.overlap)]
    /\ UNCHANGED << providerVars, rrf, ab >>
    /\ UNCHANGED pipelineVars

\* line 34: the loop condition is false, "return chunks"
ChunkReturn ==
    /\ ck.active /\ ck.pc = "loop"
    /\ ~(ck.start < Len(ck.tokens))
    /\ ck' = [ck EXCEPT !.pc = "done"]
    /\ UNCHANGED << providerVars, rrf, ab >>
    /\ UNCHANGED pipelineVars

NextChunk == ChunkLoop \/ ChunkReturn

SpecChunk == InitChunk /\ [][NextChunk]_vars

\* the interpreter keeps executing the loop
SpecChunkFair == SpecChunk /\ WF_vars(ChunkLoop) /\ WF_vars(ChunkReturn)

(***************************************************************************)
(* HybridRetriever._reciprocal_rank_fusion, src/radiate/retrieval.py.      *)
(* A result is a record with its point id and the list it was taken from   *)
(* (standing for the text, score, source and metadata fields, which the    *)
(* fusion copies and does not read).  Scores are exact fractions           *)
(* <<numerator, denominator>>; the code computes them in floating point.   *)
(***************************************************************************)
MaxList == 3         \* longest dense or sparse result list
RRF_K_DEFAULT == 60  \* HybridRetriever.__init__(rrf_k = 60)

Ids == { "A", "B", "C", "D" }
RrfKs == { 1, RRF_K_DEFAULT }

FracAdd(x, y) == << x[1] * y[2] + y[1] * x[2], x[2] * y[2] >>
FracEq(x, y) == x[1] * y[2] = y[1] * x[2]
FracLeq(x, y) == x[1] * y[2] <= y[1] * x[2]

\* the result lists a search can produce: no identifier occurs twice
IdLists(n) ==
    { l \in SeqsUpTo(Ids, n) : \A i, j \in 1..Len(l) : l[i] = l[j] => i = j }

Results(ids, origin) == [i \in 1..Len(ids) |-> [id |-> ids[i], origin |-> origin]]

\* {r['id']: idx for idx, r in enumerate(results)}: 0-based, the last
\* occurrence of an id wins
RankMap(results) ==
    [ id \in { results[i].id : i \in 1..Len(results) } |->
        (CHOOSE i \in 1..Len(results) :
            /\ results[i].id = id
            /\ \A j \in 1..Len(results) : results[j].id = id => j <= i) - 1 ]

\* lines 135 and 138: 1.0 / (self.rrf_k + rank + 1)
RrfTerm_OneBased(rrf_k, rank) == << 1, rrf_k + rank >>

RrfTerm(rrf_k, rank) == << 1, rrf_k + rank + 1 >>

\* lines 128-140: rrf_scores
RrfScores(rrf_k, dense_results, sparse_results) ==
    LET dense_ranks == RankMap(dense_results)
        sparse_ranks == RankMap(sparse_results)
        all_ids == DOMAIN dense_ranks \cup DOMAIN sparse_ranks
    IN  [ doc_id \in all_ids |->
            LET s0 == << 0, 1 >>
                s1 == IF doc_id \in DOMAIN dense_ranks
                        THEN FracAdd(s0, RrfTerm(rrf_k, dense_ranks[doc_id]))
                        ELSE s0
                s2 == IF doc_id \in DOMAIN sparse_ranks
                        THEN FracAdd(s1, RrfTerm(rrf_k, sparse_ranks[doc_id]))
                        ELSE s1
            IN  s2 ]

\* lines 143-146: the first result that carries each id, dense list first
ResultsMap(dense_results, sparse_results) ==
    LET all == dense_results \o sparse_results IN
    [ id \in { all[i].id : i \in 1..Len(all) } |->
        all[CHOOSE i \in 1..Len(all) :
              /\ all[i].id = id
              /\ \A j \in 1..Len(all) : all[j].id = id => i <= j] ]

\* line 150: sorted(rrf_scores.items(), key=lambda x: x[1], reverse=True)
InSortOrder_Ascending(order, scores) ==
    \A i \in 1..(Len(order) - 1) : FracLeq(scores[order[i]], scores[order[i + 1]])

InSortOrder(order, scores) ==
    \A i \in 1..(Len(order) - 1) : FracLeq(scores[order[i + 1]], scores[order[i]])

\* The sort is stable over the iteration order of a set of ids, which the
\* code does not fix: ids of equal score may come out in any order.
SortedIds(scores) ==
    { order \in [1..Cardinality(DOMAIN scores) -> DOMAIN scores] :
        /\ \A i, j \in DOMAIN order : order[i] = order[j] => i = j
        /\ InSortOrder(order, scores) }

InitRRF ==
    /\ InitProvider
    /\ provider = "local"
    /\ ck = Idle
    /\ \E rrf_k \in RrfKs, d \in IdLists(MaxList), sp \in IdLists(MaxList) :
         rrf = [ active |-> TRUE, rrf_k |-> rrf_k,
                 dense_results |-> Results(d, "dense"),
                 sparse_results |-> Results(sp, "sparse"),
                 merged |-> << >>, pc |-> "call" ]
    /\ ab = Idle
    /\ PipelineIdle

\* _reciprocal_rank_fusion(dense_results, sparse_results)
ReciprocalRankFusion ==
    /\ rrf.active /\ rrf.pc = "call"
    /\ LET rrf_scores == RrfScores(rrf.rrf_k, rrf.dense_results, rrf.sparse_results)
           results_map == ResultsMap(rrf.dense_results, rrf.sparse_results)
       IN \E order \in SortedIds(rrf_scores) :
            rrf' = [rrf EXCEPT
                      !.merged = [i \in 1..Len(order) |->
                                    [ id |-> order[i],
                                      origin |-> results_map[order[i]].origin,
                                      rrf_score |-> rrf_scores[order[i]] ]],
                      !.pc = "done"]
    /\ UNCHANGED << providerVars, ck, ab >>
    /\ UNCHANGED pipelineVars

NextRRF == ReciprocalRankFusion

SpecRRF == InitRRF /\ [][NextRRF]_vars

(***************************************************************************)
(* embed_batch_async(texts, batch_size, max_concurrent), the call of       *)
(* AsyncDocumentIngester.ingest_file_async (src/radiate/ingest_async.py,   *)
(* lines 57-61).  src/radiate/embeddings.py does not define the method;    *)
(* it is modelled from section 4.1 of the specification: the texts are     *)
(* partitioned into batches of batch_size, at most max_concurrent batches  *)
(* run at a time, every text is embedded through the provider's cache and  *)
(* the vectors are returned in input order.                                *)
(***************************************************************************)
MaxAsyncTexts == 3   \* longest list handed to embed_batch_async
MaxBatchSize == 2    \* largest batch_size
MaxConcurrent == 2   \* largest max_concurrent

AsyncTexts == { <<SP>>, <<"a">>, <<"a", SP>>, <<"b">> }

NumBatches(n, batch_size) == (n + batch_size - 1) \div batch_size

\* texts[b * batch_size : (b + 1) * batch_size] for the 1-based batch b
BatchOf(texts, batch_size, b) ==
    SubSeq(texts, (b - 1) * batch_size + 1, Min(b * batch_size, Len(texts)))

RECURSIVE Concat(_, _)
Concat(parts, order) ==
    IF order = << >> THEN << >>
    ELSE parts[Head(order)] \o Concat(parts, Tail(order))

\* re-assembly of the batches' vectors in the order the batches finished
Assemble_ByArrival(parts, arrival) == Concat(parts, arrival)

\* re-assembly of the batches' vectors by batch index
Assemble(parts, arrival) == Concat(parts, [b \in 1..Len(parts) |-> b])

Running == { b \in DOMAIN ab.status : ab.status[b] = "running" }

InitAsync ==
    /\ InitProvider
    /\ provider = "local"
    /\ ck = Idle
    /\ rrf = Idle
    /\ PipelineIdle
    /\ \E texts \in SeqsUpTo(AsyncTexts, MaxAsyncTexts),
          batch_size \in 1..MaxBatchSize, max_concurrent \in 1..MaxConcurrent :
         ab = [ active |-> TRUE, texts |-> texts, batch_size |-> batch_size,
                max_concurrent |-> max_concurrent,
                status |-> [b \in 1..NumBatches(Len(texts), batch_size) |-> "pending"],
                parts |-> [b \in 1..NumBatches(Len(texts), batch_size) |-> << >>],
                arrival |-> << >>, out |-> << >>, pc |-> "run" ]

\* a batch passes the admission gate
StartBatch ==
    /\ ab.active /\ ab.pc = "run"
    /\ Cardinality(Running) < ab.max_concurrent
    /\ \E b \in DOMAIN ab.status :
         /\ ab.status[b] = "pending"
         /\ ab' = [ab EXCEPT !.status[b] = "running"]
    /\ UNCHANGED providerVars
    /\ UNCHANGED << ck, rrf >>
    /\ UNCHANGED pipelineVars

\* a running batch embeds its texts and leaves the gate; an embed that
\* raises fails the call
FinishBatch ==
    /\ ab.active /\ ab.pc = "run"
    /\ \E b \in Running :
         \E r \in EmbedEachFrom(ProviderState, BatchOf(ab.texts, ab.batch_size, b),
                                1, << >>) :
           /\ Commit(r.p)
           /\ ab' = IF r.status = "ok"
                      THEN [ab EXCEPT !.status[b] = "done",
                                      !.parts[b] = r.result,
                                      !.arrival = Append(@, b)]
                      ELSE [ab EXCEPT !.status[b] = "done", !.pc = "failed"]
    /\ UNCHANGED << provider, cost_per_1k_tokens, last, ck, rrf >>
    /\ UNCHANGED pipelineVars

\* every batch has finished: the vectors are put together and returned
ReturnBatches ==
    /\ ab.active /\ ab.pc = "run"
    /\ \A b \in DOMAIN ab.status : ab.status[b] = "done"
    /\ ab' = [ab EXCEPT !.out = Assemble(ab.parts, ab.arrival), !.pc = "returned"]
    /\ UNCHANGED providerVars
    /\ UNCHANGED << ck, rrf >>
    /\ UNCHANGED pipelineVars

NextAsync == StartBatch \/ FinishBatch \/ ReturnBatches

SpecAsync == InitAsync /\ [][NextAsync]_vars

(***************************************************************************)
(* The search entry points: HybridRetriever.search (retrieval.py),         *)
(* QueryEngine.search and QueryEngine.query (query.py), Radiate.search and *)
(* Radiate.query (core.py).  sr.hits is the index's answer to the query:   *)
(* the ids of the stored points, nearest first.  The order in which BM25   *)
(* ranks the candidates depends on their texts, which are left open here:  *)
(* the sparse list may be any reordering of the candidates.                *)
(***************************************************************************)
MaxTopK == 2             \* largest top_k
INITIAL_K_DEFAULT == 100 \* HybridRetriever.search(initial_k = 100)

Modes == { "dense", "sparse", "hybrid", "semantic", "HYBRID" }
InitialKs == { 2, INITIAL_K_DEFAULT }

Take(seq, k) == SubSeq(seq, 1, Min(k, Len(seq)))

Reorderings(seq) ==
    { [i \in 1..Len(seq) |-> seq[f[i]]] :
        f \in { g \in [1..Len(seq) -> 1..Len(seq)] :
                  \A i, j \in 1..Len(seq) : g[i] = g[j] => i = j } }

\* _reciprocal_rank_fusion as a set of possible merged lists
FusedLists(rrf_k, dense_results, sparse_results) ==
    LET rrf_scores == RrfScores(rrf_k, dense_results, sparse_results)
        results_map == ResultsMap(dense_results, sparse_results)
    IN  { [i \in 1..Len(order) |->
             [ id |-> order[i], origin |-> results_map[order[i]].origin,
               rrf_score |-> rrf_scores[order[i]] ]]
          : order \in SortedIds(rrf_scores) }

Returned(results) == [ raised |-> FALSE, error |-> NoError, results |-> results ]
Raised(type, cause) ==
    [ raised |-> TRUE, error |-> [type |-> type, cause |-> cause], results |-> << >> ]

\* line 193: ValueError("Unknown mode: ... Use 'dense', 'sparse', or 'hybrid'")
UnknownMode == "Unknown mode: use 'dense', 'sparse', or 'hybrid'"

\* _dense_search, lines 195-217
DenseSearch(hits, top_k) == Results(Take(hits, top_k), "dense")

\* _sparse_search, lines 219-250
SparseSearch(hits, top_k, initial_k) ==
    LET candidates == Take(hits, initial_k) IN
    IF candidates = << >> THEN { << >> }
    ELSE { Take(Results(order, "sparse"), top_k) : order \in Reorderings(candidates) }

\* HybridRetriever.search, lines 176-193; embed_ok: the query embeds
HybridRetrieverSearch(hits, top_k, mode, initial_k, embed_ok) ==
    IF mode = "dense"
      THEN IF embed_ok THEN { Returned(DenseSearch(hits, top_k)) }
           ELSE { Raised("RuntimeError", "Embedding failed") }
    ELSE IF mode = "sparse"
      THEN IF embed_ok
             THEN { Returned(r) : r \in SparseSearch(hits, top_k, initial_k) }
             ELSE { Raised("RuntimeError", "Embedding failed") }
    ELSE IF mode = "hybrid"
      THEN IF embed_ok
             THEN UNION { { Returned(Take(m, top_k)) :
                              m \in FusedLists(RRF_K_DEFAULT,
                                               DenseSearch(hits, initial_k), sp) }
                          : sp \in SparseSearch(hits, initial_k, initial_k) }
             ELSE { Raised("RuntimeError", "Embedding failed") }
    ELSE { Raised("ValueError", UnknownMode) }

\* QueryEngine.search, query.py lines 51-76: the results of the built-in
\* dense branch carry no id
QueryEngineSearch(hits, top_k, mode, embed_ok) ==
    IF mode \in { "sparse", "hybrid" }
      THEN HybridRetrieverSearch(hits, top_k, mode, INITIAL_K_DEFAULT, embed_ok)
      ELSE IF embed_ok
             THEN { Returned([i \in 1..Len(Take(hits, top_k)) |->
                                [ point |-> hits[i], origin |-> "dense" ]]) }
             ELSE { Raised("RuntimeError", "Embedding failed") }

\* QueryEngine.query, query.py lines 94-109: the results as one text
QueryEngineQuery(hits, top_k, mode, embed_ok) ==
    { IF o.raised THEN o
      ELSE IF o.results = << >>
        THEN [o EXCEPT !.results = "No relevant information found."]
        ELSE [o EXCEPT !.results = [ context |-> o.results ]]
      : o \in QueryEngineSearch(hits, top_k, mode, embed_ok) }

InitSearch ==
    /\ InitProvider
    /\ provider = "local"
    /\ ck = Idle /\ rrf = Idle /\ ab = Idle
    /\ ing = Idle /\ qd = Idle /\ rad = Idle
    /\ bm = Idle /\ hr = Idle /\ th = Idle
    /\ \E hits \in IdLists(MaxList) :
         sr = [ active |-> TRUE, hits |-> hits, entry |-> "none", mode |-> "none",
                top_k |-> 0, outcome |-> Returned(<< >>) ]

SearchFrame == UNCHANGED << providerVars, ck, rrf, ab, ing, qd, rad, bm, hr, th >>

HybridRetrieverSearchCall ==
    /\ sr.active /\ sr.entry = "none"
    /\ \E top_k \in 1..MaxTopK, mode \in Modes, initial_k \in InitialKs,
          embed_ok \in BOOLEAN :
         \E o \in HybridRetrieverSearch(sr.hits, top_k, mode, initial_k, embed_ok) :
           sr' = [sr EXCEPT !.entry = "HybridRetriever.search", !.mode = mode,
                            !.top_k = top_k, !.outcome = o]
    /\ SearchFrame

QueryEngineSearchCall ==
    /\ sr.active /\ sr.entry = "none"
    /\ \E top_k \in 1..MaxTopK, mode \in Modes, embed_ok \in BOOLEAN :
         \E o \in QueryEngineSearch(sr.hits, top_k, mode, embed_ok) :
           sr' = [sr EXCEPT !.entry = "QueryEngine.search", !.mode = mode,
                            !.top_k = top_k, !.outcome = o]
    /\ SearchFrame

\* Radiate.search, core.py lines 306-320
RadiateSearchCall ==
    /\ sr.active /\ sr.entry = "none"
    /\ \E top_k \in 1..MaxTopK, mode \in Modes, embed_ok \in BOOLEAN :
         \E o \in QueryEngineSearch(sr.hits, top_k, mode, embed_ok) :
           sr' = [sr EXCEPT !.entry = "Radiate.search", !.mode = mode,
                            !.top_k = top_k, !.outcome = o]
    /\ SearchFrame

\* Radiate.query, core.py lines 283-304
RadiateQueryCall ==
    /\ sr.active /\ sr.entry = "none"
    /\ \E top_k \in 1..MaxTopK, mode \in Modes, embed_ok \in BOOLEAN :
         \E o \in QueryEngineQuery(sr.hits, top_k, mode, embed_ok) :
           sr' = [sr EXCEPT !.entry = "Radiate.query", !.mode = mode,
                            !.top_k = top_k, !.outcome = o]
    /\ SearchFrame

NextSearch ==
    \/ HybridRetrieverSearchCall
    \/ QueryEngineSearchCall
    \/ RadiateSearchCall
    \/ RadiateQueryCall

SpecSearch == InitSearch /\ [][NextSearch]_vars

(***************************************************************************)
(* Ingestion: DocumentIngester.ingest_file / ingest_directory (ingest.py)  *)
(* and AsyncDocumentIngester.ingest_file_async / ingest_directory_async    *)
(* (ingest_async.py).                                                      *)
(* What a file holds is read when the file is ingested.  A readable file   *)
(* is represented by the chunk texts the chunker cuts its text into (none  *)
(* for an empty text).  Point ids are random 63-bit numbers and are left   *)
(* out.  qd.upserts is the list of upsert requests sent to the index.      *)
(***************************************************************************)
\* most files a directory holds
MaxFiles == 3
\* largest max_concurrent_files
MaxConcurrentFiles == 2

\* read_file raised: missing file, unsupported suffix
Unreadable == [ raised |-> "read_file raised", chunks |-> << >> ]
\* the chunker raised: the tokenizer could not be loaded
Unchunkable == [ raised |-> "chunker raised", chunks |-> << >> ]
Unread == [ raised |-> "unread", chunks |-> << >> ]

FileChunks ==
    { << >>, << <<"a">>, <<"b">> >>, << <<SP>>, <<"b">> >> }

FileReads ==
    { Unreadable, Unchunkable } \cup { [ raised |-> "none", chunks |-> c ] : c \in FileChunks }

PathOf(i) == << "file", i >>

\* The embedding model of an ingestion run: it answers a text with the
\* vector of that text, or the service is unavailable.
VecOf(text) == IF text = <<"a">> THEN <<1, 0>> ELSE <<0, 1>>

IngestBackend ==
    [ t \in Texts |->
        { [ ok |-> TRUE, vec |-> VecOf(t), failure |-> "none" ],
          [ ok |-> FALSE, vec |-> NoVec, failure |-> "unavailable" ] } ]

\* the except branch of ingest_file / ingest_file_async
CatchAll_Reraise(path, message) ==
    [ file |-> path, chunks_ingested |-> 0, status |-> "exception", error |-> message ]

CatchAll(path, message) ==
    [ file |-> path, chunks_ingested |-> 0, status |-> "failed", error |-> message ]

Skipped(path) ==
    [ file |-> path, chunks_ingested |-> 0, status |-> "skipped", error |-> NoError ]

Success(path, chunks) ==
    [ file |-> path, chunks_ingested |-> Len(chunks), status |-> "success",
      error |-> NoError ]

\* lines 123-137: for idx, (chunk, embedding) in enumerate(zip(chunks, embeddings))
BuildPoints(path, chunks, embeddings) ==
    [ idx \in 1..Min(Len(chunks), Len(embeddings)) |->
        [ vector |-> embeddings[idx],
          payload |-> [ text |-> chunks[idx], source |-> path,
                        chunk_index |-> idx - 1, total_chunks |-> Len(chunks) ] ] ]

\* qdrant_client.upsert raised: index unreachable, request rejected
UpsertRaised == [ type |-> "Exception", cause |-> "upsert raised" ]

\* what read_file or the chunker raised, NoError if neither did
ReadRaised(content) ==
    IF content.raised = "none" THEN NoError
    ELSE [ type |-> "ValueError", cause |-> content.raised ]

\* the part of ingest_file after the embeddings were asked for: e is the
\* way the embedding call ended
AfterEmbedding_UpsertAnyway(path, chunks, e, upsert_ok) ==
    IF e.status # "ok"
      THEN [ p |-> e.p, result |-> CatchAll(path, e.error),
             upserts |-> << [file |-> path, points |-> << >>, ok |-> TRUE] >>,
             thrown |-> e.error ]
    ELSE [ p |-> e.p, result |-> Success(path, chunks),
           upserts |-> << [file |-> path, points |-> BuildPoints(path, chunks, e.result),
                           ok |-> TRUE] >>,
           thrown |-> NoError ]

AfterEmbedding(path, chunks, e, upsert_ok) ==
    IF e.status # "ok"
      THEN [ p |-> e.p, result |-> CatchAll(path, e.error), upserts |-> << >>,
             thrown |-> e.error ]
    ELSE LET points == BuildPoints(path, chunks, e.result) IN
      IF upsert_ok
        THEN [ p |-> e.p, result |-> Success(path, chunks),
               upserts |-> << [file |-> path, points |-> points, ok |-> TRUE] >>,
               thrown |-> NoError ]
        ELSE [ p |-> e.p, result |-> CatchAll(path, UpsertRaised),
               upserts |-> << [file |-> path, points |-> points, ok |-> FALSE] >>,
               thrown |-> UpsertRaised ]

\* the part of ingest_file before the embeddings are asked for: the result
\* if the call already ends there, "embed" if it goes on
Pending == [ status |-> "embed" ]

BeforeEmbedding(path, content) ==
    IF content.raised # "none" THEN CatchAll(path, ReadRaised(content))
    ELSE IF content.chunks = << >> THEN Skipped(path)
    ELSE Pending

\* DocumentIngester.ingest_file, lines 94-160: the ways the call can end
IngestFile(p, path, content, upsert_ok) ==
    IF BeforeEmbedding(path, content).status # "embed"
      THEN { [ p |-> p, result |-> BeforeEmbedding(path, content), upserts |-> << >>,
               thrown |-> ReadRaised(content) ] }
      ELSE { AfterEmbedding(path, content.chunks, e, upsert_ok) :
               e \in EmbedBatchIn(IngestBackend, p, content.chunks, 1, << >>) }

\* ingest_directory lines 203-209 and ingest_directory_async lines 159-172
AddResult(results, result) ==
    IF result.status = "exception"
      THEN [results EXCEPT !.failed = @ + 1,
                           !.details = Append(@, [error |-> result.error,
                                                  status |-> "failed"])]
    ELSE IF result.status = "success"
      THEN [results EXCEPT !.successful = @ + 1,
                           !.total_chunks = @ + result.chunks_ingested,
                           !.details = Append(@, result)]
      ELSE [results EXCEPT !.failed = @ + 1, !.details = Append(@, result)]

\* "if not files: raise ValueError(...)"
NoFiles_Ignored(files) == FALSE

NoFiles(files) == files = << >>

NewResults(files) ==
    [ total_files |-> Len(files), successful |-> 0, failed |-> 0,
      total_chunks |-> 0, details |-> << >> ]

NoResult ==
    [ file |-> << >>, chunks_ingested |-> 0, status |-> "none", error |-> NoError ]

InitIngest ==
    /\ InitProvider
    /\ provider = "local"
    /\ ck = Idle /\ rrf = Idle /\ ab = Idle /\ sr = Idle /\ rad = Idle
    /\ bm = Idle /\ hr = Idle /\ th = Idle
    /\ qd = [ active |-> TRUE, upserts |-> << >> ]
    /\ \E mode \in { "seq", "async" }, dir_exists \in BOOLEAN, n \in 0..MaxFiles,
          mcf \in 0..MaxConcurrentFiles :
         /\ mode = "seq" => mcf = 0
         /\ ing = [ active |-> TRUE, mode |-> mode, dir_exists |-> dir_exists,
                    files |-> [i \in 1..n |-> PathOf(i)],
                    max_concurrent_files |-> mcf, semaphore |-> mcf,
                    pc |-> "call", error |-> NoError, i |-> 1,
                    task |-> [i \in 1..n |-> "waiting"],
                    seen |-> [i \in 1..n |-> Unread],
                    thrown |-> [i \in 1..n |-> NoError],
                    file_results |-> [i \in 1..n |-> NoResult],
                    results |-> NewResults(<< >>) ]

IngestFrame ==
    UNCHANGED << provider, cost_per_1k_tokens, last, ck, rrf, ab, sr, rad, bm, hr, th >>

\* ingest_directory lines 177-198 / ingest_directory_async lines 110-146
DirStart ==
    /\ ing.active /\ ing.pc = "call"
    /\ ing' = IF ~ing.dir_exists
                THEN [ing EXCEPT !.pc = "raised", !.error = [type |-> "ValueError", cause |-> "Directory not found"]]
              ELSE IF NoFiles(ing.files)
                THEN [ing EXCEPT !.pc = "raised", !.error = [type |-> "ValueError", cause |-> "No files matching"]]
              ELSE [ing EXCEPT !.pc = IF ing.mode = "seq" THEN "loop" ELSE "gather",
                               !.results = NewResults(ing.files)]
    /\ UNCHANGED << cache, total_embeddings, cached_embeddings, total_cost,
                    backend_calls, returned, computed, qd >>
    /\ IngestFrame

\* ingest_directory lines 200-209: one iteration of "for file_path in files"
DirFile ==
    /\ ing.active /\ ing.mode = "seq" /\ ing.pc = "loop"
    /\ ing.i <= Len(ing.files)
    /\ \E content \in FileReads, upsert_ok \in BOOLEAN :
         \E o \in IngestFile(ProviderState, ing.files[ing.i], content, upsert_ok) :
           /\ Commit(o.p)
           /\ qd' = [qd EXCEPT !.upserts = @ \o o.upserts]
           /\ ing' = IF o.result.status = "exception"
                       THEN [ing EXCEPT !.pc = "raised", !.error = o.result.error,
                                        !.seen[ing.i] = content,
                                        !.thrown[ing.i] = o.thrown,
                                        !.file_results[ing.i] = o.result]
                       ELSE [ing EXCEPT !.results = AddResult(@, o.result),
                                        !.seen[ing.i] = content,
                                        !.thrown[ing.i] = o.thrown,
                                        !.file_results[ing.i] = o.result,
                                        !.task[ing.i] = "done",
                                        !.i = @ + 1]
    /\ IngestFrame

\* ingest_directory lines 211-215: "return results"
DirReturn ==
    /\ ing.active /\ ing.mode = "seq" /\ ing.pc = "loop"
    /\ ing.i > Len(ing.files)
    /\ ing' = [ing EXCEPT !.pc = "returned"]
    /\ UNCHANGED << cache, total_embeddings, cached_embeddings, total_cost,
                    backend_calls, returned, computed, qd >>
    /\ IngestFrame

\* asyncio.Semaphore: "async with semaphore" enters when the value is positive
SemaphoreFree_Always(value) == TRUE

SemaphoreFree(value) == value > 0

\* leaving "async with semaphore": __aexit__ releases whatever the body did
ReleaseAfter_OnlySuccess(value, result) ==
    IF result.status = "failed" THEN value ELSE value + 1

ReleaseAfter(value, result) == value + 1

InFlight == { f \in DOMAIN ing.task : ing.task[f] = "running" }

\* process_file(f) up to the first suspension, lines 148-150 and 36-61:
\* the gate is taken, the file read and chunked; a call that ends before the
\* embeddings are awaited leaves the gate in the same step
AsyncStartFile ==
    /\ ing.active /\ ing.mode = "async" /\ ing.pc = "gather"
    /\ \E f \in DOMAIN ing.files, content \in FileReads :
         /\ ing.task[f] = "waiting"
         /\ SemaphoreFree(ing.semaphore)
         /\ LET r == BeforeEmbedding(ing.files[f], content) IN
              ing' = IF r.status = "embed"
                       THEN [ing EXCEPT !.task[f] = "running",
                                        !.seen[f] = content,
                                        !.semaphore = @ - 1]
                       ELSE [ing EXCEPT !.task[f] = "done",
                                        !.seen[f] = content,
                                        !.thrown[f] = ReadRaised(content),
                                        !.file_results[f] = r,
                                        !.semaphore = ReleaseAfter(@ - 1, r)]
    /\ UNCHANGED << cache, total_embeddings, cached_embeddings, total_cost,
                    backend_calls, returned, computed, qd >>
    /\ IngestFrame

\* process_file(f) from the resumption after embed_batch_async to its end,
\* lines 57-101 and the exit of "async with semaphore".  A file has at most
\* batch_size = 32 chunks here, so its texts are embedded as one batch.
AsyncFinishFile ==
    /\ ing.active /\ ing.mode = "async" /\ ing.pc = "gather"
    /\ \E f \in InFlight, upsert_ok \in BOOLEAN :
         \E e \in EmbedEachIn(IngestBackend, ProviderState, ing.seen[f].chunks, 1, << >>) :
           LET o == AfterEmbedding(ing.files[f], ing.seen[f].chunks, e, upsert_ok) IN
             /\ Commit(o.p)
             /\ qd' = [qd EXCEPT !.upserts = @ \o o.upserts]
             /\ ing' = [ing EXCEPT !.task[f] = "done",
                                   !.thrown[f] = o.thrown,
                                   !.file_results[f] = o.result,
                                   !.semaphore = ReleaseAfter(@, o.result)]
    /\ IngestFrame

RECURSIVE Aggregate(_, _, _)
Aggregate(results, file_results, i) ==
    IF i > Len(file_results) THEN results
    ELSE Aggregate(AddResult(results, file_results[i]), file_results, i + 1)

\* lines 153-178: gather has every result, in the order of the files
AsyncGather ==
    /\ ing.active /\ ing.mode = "async" /\ ing.pc = "gather"
    /\ \A f \in DOMAIN ing.task : ing.task[f] = "done"
    /\ ing' = [ing EXCEPT !.pc = "returned",
                          !.results = Aggregate(@, ing.file_results, 1)]
    /\ UNCHANGED << cache, total_embeddings, cached_embeddings, total_cost,
                    backend_calls, returned, computed, qd >>
    /\ IngestFrame

NextIngest ==
    \/ DirStart
    \/ DirFile
    \/ DirReturn
    \/ AsyncStartFile
    \/ AsyncFinishFile
    \/ AsyncGather

SpecIngest == InitIngest /\ [][NextIngest]_vars

\* the event loop runs every task that can run, and every awaited embedding
\* call ends
SpecIngestFair ==
    /\ SpecIngest
    /\ WF_vars(DirStart)
    /\ WF_vars(DirFile)
    /\ WF_vars(DirReturn)
    /\ WF_vars(AsyncStartFile)
    /\ WF_vars(AsyncFinishFile)
    /\ WF_vars(AsyncGather)

(***************************************************************************)
(* Radiate and its collections (core.py).  qd.collections is the state of  *)
(* the Qdrant server: for every collection name whether it exists, its     *)
(* vector size and its points; a stored vector is represented by its       *)
(* length.  A Radiate object is its embedding_dim and collection_name.     *)
(* An embedding model yields vectors of one length, the one the probe      *)
(* embed("test") of __init__ measures.  Every request to Qdrant can fail;  *)
(* Qdrant rejects an upsert into a missing collection and an upsert of a   *)
(* vector whose length is not the collection's size.                       *)
(***************************************************************************)
\* most points a collection holds
MaxStored == 2
\* most Radiate objects alive
MaxInstances == 2

CollectionNames == { "radiate_docs", "radiate_docs_new" }
\* lengths of the vectors of the embedding models
Dims == { 2, 3 }

Absent == [ exists |-> FALSE, size |-> 0, points |-> << >> ]

Ok(collections) == [ collections |-> collections, raised |-> FALSE, error |-> NoError ]

Fail(collections, cause) ==
    [ collections |-> collections, raised |-> TRUE,
      error |-> [type |-> "ValueError", cause |-> cause] ]

\* "if existing_dim != self.embedding_dim"
DimMismatch_Ignored(existing_dim, embedding_dim) == FALSE

DimMismatch(existing_dim, embedding_dim) == existing_dim # embedding_dim

\* Radiate._ensure_collection_exists, lines 101-144
EnsureCollectionExists(collections, name, embedding_dim, reads_ok, create_ok) ==
    IF ~reads_ok THEN Fail(collections, "Qdrant error")
    ELSE IF collections[name].exists
      THEN IF DimMismatch(collections[name].size, embedding_dim)
             THEN Fail(collections, "Dimension mismatch")
             ELSE Ok(collections)
    ELSE IF create_ok
      THEN Ok([collections EXCEPT
                 ![name] = [exists |-> TRUE, size |-> embedding_dim, points |-> << >>]])
      ELSE Fail(collections, "Qdrant error")

\* Radiate.__init__, lines 57-96
RadiateNew(collections, name, dim, config_ok, probe_ok, reads_ok, create_ok) ==
    IF ~config_ok THEN Fail(collections, "Qdrant URL or API key not found")
    ELSE IF ~probe_ok
      THEN [ collections |-> collections, raised |-> TRUE,
             error |-> [type |-> "RuntimeError", cause |-> "Embedding failed"] ]
    ELSE EnsureCollectionExists(collections, name, dim, reads_ok, create_ok)

\* "if not confirm"
ConfirmMissing_Ignored(confirm) == FALSE

ConfirmMissing(confirm) == ~confirm

\* Radiate.delete_collection, lines 146-178
DeleteCollection(collections, inst, confirm, delete_ok, reads_ok, create_ok) ==
    IF ConfirmMissing(confirm)
      THEN Fail(collections, "Collection deletion requires explicit confirmation")
    ELSE IF ~delete_ok THEN Fail(collections, "Failed to delete collection")
    ELSE LET deleted == [collections EXCEPT ![inst.collection_name] = Absent]
             r == EnsureCollectionExists(deleted, inst.collection_name,
                                         inst.embedding_dim, reads_ok, create_ok)
         IN IF r.raised THEN Fail(r.collections, "Failed to delete collection") ELSE r

\* qdrant_client.upsert of n vectors of one length, ingest.py lines 140-143
Upsert(collections, name, n, length, upsert_ok) ==
    IF ~upsert_ok \/ ~collections[name].exists \/ collections[name].size # length
      THEN [ collections |-> collections, raised |-> TRUE,
             error |-> [type |-> "Exception", cause |-> "upsert raised"] ]
      ELSE Ok([collections EXCEPT
                 ![name].points = @ \o [i \in 1..n |-> length]])

NoCall ==
    [ op |-> "none", inst |-> [embedding_dim |-> 0, collection_name |-> "none"],
      confirm |-> FALSE, reached |-> FALSE, reachable |-> FALSE,
      raised |-> FALSE, error |-> NoError,
      pre |-> [c \in CollectionNames |-> Absent], pre_instances |-> {} ]

InitRadiate ==
    /\ InitProvider
    /\ provider = "local"
    /\ ck = Idle /\ rrf = Idle /\ ab = Idle /\ sr = Idle /\ ing = Idle
    /\ bm = Idle /\ hr = Idle /\ th = Idle
    /\ qd = [ active |-> TRUE, collections |-> [c \in CollectionNames |-> Absent] ]
    /\ rad = [ active |-> TRUE, instances |-> {}, last |-> NoCall ]

RadiateFrame == UNCHANGED << providerVars, ck, rrf, ab, sr, ing, bm, hr, th >>

\* Radiate(embedding_provider=..., collection_name=...)
RadiateInitCall ==
    /\ rad.active
    /\ Cardinality(rad.instances) < MaxInstances
    /\ \E name \in CollectionNames, dim \in Dims,
          config_ok \in BOOLEAN, probe_ok \in BOOLEAN,
          reads_ok \in BOOLEAN, create_ok \in BOOLEAN :
         LET r == RadiateNew(qd.collections, name, dim, config_ok, probe_ok,
                             reads_ok, create_ok)
             inst == [ embedding_dim |-> dim, collection_name |-> name ]
         IN /\ qd' = [qd EXCEPT !.collections = r.collections]
            /\ rad' = [rad EXCEPT
                  !.instances = IF r.raised THEN @ ELSE @ \cup { inst },
                  !.last = [ op |-> "init", inst |-> inst, confirm |-> FALSE,
                             reached |-> config_ok /\ probe_ok /\ reads_ok,
                             reachable |-> reads_ok /\ create_ok,
                             raised |-> r.raised, error |-> r.error,
                             pre |-> qd.collections, pre_instances |-> rad.instances ]]
    /\ RadiateFrame

\* radiate.delete_collection(confirm)
RadiateDeleteCall ==
    /\ rad.active
    /\ \E inst \in rad.instances, confirm \in BOOLEAN, delete_ok \in BOOLEAN,
          reads_ok \in BOOLEAN, create_ok \in BOOLEAN :
         LET r == DeleteCollection(qd.collections, inst, confirm, delete_ok,
                                   reads_ok, create_ok)
         IN /\ qd' = [qd EXCEPT !.collections = r.collections]
            /\ rad' = [rad EXCEPT
                  !.last = [ op |-> "delete", inst |-> inst, confirm |-> confirm,
                             reached |-> TRUE,
                             reachable |-> delete_ok /\ reads_ok /\ create_ok,
                             raised |-> r.raised, error |-> r.error,
                             pre |-> qd.collections, pre_instances |-> rad.instances ]]
    /\ RadiateFrame

\* radiate.ingest(file): the chunks of the file are embedded by the object's
\* embedder and sent in one upsert; a failure is the file's failed result
RadiateIngestCall ==
    /\ rad.active
    /\ \E inst \in rad.instances, n \in 1..MaxStored, upsert_ok \in BOOLEAN :
         /\ Len(qd.collections[inst.collection_name].points) + n <= MaxStored
         /\ LET r == Upsert(qd.collections, inst.collection_name, n,
                            inst.embedding_dim, upsert_ok)
            IN /\ qd' = [qd EXCEPT !.collections = r.collections]
               /\ rad' = [rad EXCEPT
                     !.last = [ op |-> "ingest", inst |-> inst, confirm |-> FALSE,
                                reached |-> TRUE, reachable |-> upsert_ok,
                                raised |-> r.raised, error |-> r.error,
                                pre |-> qd.collections,
                                pre_instances |-> rad.instances ]]
    /\ RadiateFrame

NextRadiate == RadiateInitCall \/ RadiateDeleteCall \/ RadiateIngestCall

SpecRadiate == InitRadiate /\ [][NextRadiate]_vars

(***************************************************************************)
(* BM25 (retrieval.py lines 6-88).  A text is a tuple of characters, a     *)
(* token a tuple of lower-case characters.  Scores are kept in units of    *)
(* 1e-4: idf is the logarithm rounded down to four decimals and every      *)
(* term of a score is rounded down; avgdl is kept as the pair of the sum   *)
(* of the document lengths and the corpus size.                            *)
(***************************************************************************)
\* longest corpus handed to fit
MaxCorpus == 2

\* BM25(k1 = 1.5, b = 0.75) as fractions
K1_NUM == 3
K1_DEN == 2
B_NUM == 3
B_DEN == 4

Lower(c) == IF c = "A" THEN "a" ELSE IF c = "B" THEN "b" ELSE c

\* text.lower().split()
RECURSIVE SplitFrom(_, _, _, _)
SplitFrom(text, i, word, acc) ==
    IF i > Len(text)
      THEN IF word = << >> THEN acc ELSE Append(acc, word)
    ELSE IF IsSpace(text[i])
      THEN SplitFrom(text, i + 1, << >>,
                     IF word = << >> THEN acc ELSE Append(acc, word))
      ELSE SplitFrom(text, i + 1, Append(word, Lower(text[i])), acc)

Tokenize(text) == SplitFrom(text, 1, << >>, << >>)

Docs ==
    { << >>, <<SP>>, <<"a">>, <<"A", SP, "a">>, <<"a", SP, "b">>,
      <<"a", SP, "a", SP, "b">>, <<"x">> }

Queries == { << >>, <<"a">>, <<"B", SP, "a">>, <<"a", SP, "a">> }

Corpora(n) == UNION { [1..m -> Docs] : m \in 0..n }

\* Counter(tokens)[token]
CountOf(tokens, token) ==
    Cardinality({ i \in DOMAIN tokens : tokens[i] = token })

TokenSet(tokens) == { tokens[i] : i \in DOMAIN tokens }

RECURSIVE SumSeq(_, _)
SumSeq(seq, i) == IF i > Len(seq) THEN 0 ELSE seq[i] + SumSeq(seq, i + 1)

\* math.log((corpus_size - freq + 0.5) / (freq + 0.5)) in units of 1e-4
LogOdds(corpus_size, freq) ==
    CASE corpus_size = 1 /\ freq = 1 -> 0 - 10987
      [] corpus_size = 2 /\ freq = 1 -> 0
      [] corpus_size = 2 /\ freq = 2 -> 0 - 16095
      [] corpus_size = 3 /\ freq = 1 -> 5108
      [] corpus_size = 3 /\ freq = 2 -> 0 - 5109
      [] corpus_size = 3 /\ freq = 3 -> 0 - 19460
      [] corpus_size = 4 /\ freq = 1 -> 8472
      [] corpus_size = 4 /\ freq = 2 -> 0
      [] corpus_size = 4 /\ freq = 3 -> 0 - 8473
      [] corpus_size = 4 /\ freq = 4 -> 0 - 21973
      [] corpus_size = 5 /\ freq = 1 -> 10986
      [] corpus_size = 5 /\ freq = 2 -> 3364
      [] corpus_size = 5 /\ freq = 3 -> 0 - 3365
      [] corpus_size = 5 /\ freq = 4 -> 0 - 10987
      [] corpus_size = 5 /\ freq = 5 -> 0 - 23979

\* the idf of line 51 without its "+ 1.0"
IdfOf_NoPlusOne(corpus_size, freq) == LogOdds(corpus_size, freq)

\* line 51: math.log((corpus_size - freq + 0.5) / (freq + 0.5) + 1.0),
\* in units of 1e-4
IdfOf(corpus_size, freq) ==
    CASE corpus_size = 1 /\ freq = 1 -> 2876
      [] corpus_size = 2 /\ freq = 1 -> 6931
      [] corpus_size = 2 /\ freq = 2 -> 1823
      [] corpus_size = 3 /\ freq = 1 -> 9808
      [] corpus_size = 3 /\ freq = 2 -> 4700
      [] corpus_size = 3 /\ freq = 3 -> 1335
      [] corpus_size = 4 /\ freq = 1 -> 12039
      [] corpus_size = 4 /\ freq = 2 -> 6931
      [] corpus_size = 4 /\ freq = 3 -> 3566
      [] corpus_size = 4 /\ freq = 4 -> 1053
      [] corpus_size = 5 /\ freq = 1 -> 13862
      [] corpus_size = 5 /\ freq = 2 -> 8754
      [] corpus_size = 5 /\ freq = 3 -> 5389
      [] corpus_size = 5 /\ freq = 4 -> 2876
      [] corpus_size = 5 /\ freq = 5 -> 870

\* BM25.__init__, lines 15-22
NewBM25 ==
    [ corpus_size |-> 0, avgdl |-> [sum |-> 0, n |-> 1], doc_freqs |-> << >>,
      idf |-> << >>, doc_lengths |-> << >> ]

\* the tokens of the corpus in a fixed order, so that idf is a sequence of
\* (token, value) pairs
Vocabulary == << <<"a">>, <<"b">>, <<"x">> >>

\* fit that computes avgdl only the first time
Fit_KeepsAverage(bm25, corpus) ==
    LET corpus_size == Len(corpus)
        tokenized_corpus == [i \in 1..corpus_size |-> Tokenize(corpus[i])]
        doc_lengths == [i \in 1..corpus_size |-> Len(tokenized_corpus[i])]
        df(token) == Cardinality({ i \in 1..corpus_size :
                                     token \in TokenSet(tokenized_corpus[i]) })
        seen == SelectSeq(Vocabulary, LAMBDA token : df(token) > 0)
    IN [ bm25 EXCEPT
           !.corpus_size = corpus_size,
           !.doc_lengths = doc_lengths,
           !.avgdl = IF bm25.corpus_size > 0 THEN @
                     ELSE IF corpus_size > 0
                       THEN [sum |-> SumSeq(doc_lengths, 1), n |-> corpus_size]
                       ELSE [sum |-> 0, n |-> 1],
           !.idf = [k \in 1..Len(seen) |->
                      [token |-> seen[k], idf |-> IdfOf(corpus_size, df(seen[k]))]] ]

\* BM25.fit, lines 28-51
Fit(bm25, corpus) ==
    LET corpus_size == Len(corpus)
        tokenized_corpus == [i \in 1..corpus_size |-> Tokenize(corpus[i])]
        doc_lengths == [i \in 1..corpus_size |-> Len(tokenized_corpus[i])]
        df(token) == Cardinality({ i \in 1..corpus_size :
                                     token \in TokenSet(tokenized_corpus[i]) })
        seen == SelectSeq(Vocabulary, LAMBDA token : df(token) > 0)
    IN [ bm25 EXCEPT
           !.corpus_size = corpus_size,
           !.doc_lengths = doc_lengths,
           !.avgdl = IF corpus_size > 0
                       THEN [sum |-> SumSeq(doc_lengths, 1), n |-> corpus_size]
                       ELSE [sum |-> 0, n |-> 1],
           !.idf = [k \in 1..Len(seen) |->
                      [token |-> seen[k], idf |-> IdfOf(corpus_size, df(seen[k]))]] ]

\* "if token not in self.idf: continue"
TokenInIdf_Always(bm25, token) == TRUE

TokenInIdf(bm25, token) == \E k \in DOMAIN bm25.idf : bm25.idf[k].token = token

IdfScore(bm25, token) ==
    LET hit == { k \in DOMAIN bm25.idf : bm25.idf[k].token = token } IN
    IF hit = {} THEN 0 ELSE bm25.idf[CHOOSE k \in hit : TRUE].idf

\* lines 77-84 for one query token: the value added to the score, or the
\* exception the arithmetic raises.  With avgdl = sum/n,
\*   denominator = tf + k1 * (1 - b + b * doc_len * n / sum)
\* and the term is idf * tf * (k1 + 1) / denominator.
DenominatorNum(bm25, tf, doc_len) ==
    tf * K1_DEN * B_DEN * bm25.avgdl.sum
      + K1_NUM * ((B_DEN - B_NUM) * bm25.avgdl.sum + B_NUM * doc_len * bm25.avgdl.n)

Term(bm25, token, tf, doc_len) ==
    LET sum == bm25.avgdl.sum
        den_num == DenominatorNum(bm25, tf, doc_len)
    IN IF ~TokenInIdf(bm25, token) THEN [ raised |-> "none", value |-> 0 ]
       \* line 77: idf_score = self.idf[token]
       ELSE IF ~(token \in { bm25.idf[k].token : k \in DOMAIN bm25.idf })
         THEN [ raised |-> "KeyError", value |-> 0 ]
       ELSE IF sum = 0 \/ den_num = 0
         THEN [ raised |-> "ZeroDivisionError", value |-> 0 ]
       ELSE [ raised |-> "none",
              value |-> (IdfScore(bm25, token) * tf * (K1_NUM + K1_DEN) * B_DEN * sum)
                          \div den_num ]

\* lines 67-86 for one document: Counter of the document passed in, length
\* of the document that was fitted at that index
DocScore(bm25, query_tokens, doc, idx) ==
    IF idx > Len(bm25.doc_lengths) THEN [ raised |-> "IndexError", value |-> 0 ]
    ELSE LET doc_tokens == Tokenize(doc)
             terms == [q \in DOMAIN query_tokens |->
                         Term(bm25, query_tokens[q],
                              CountOf(doc_tokens, query_tokens[q]),
                              bm25.doc_lengths[idx])]
             bad == { q \in DOMAIN terms : terms[q].raised # "none" }
         IN IF bad # {}
              THEN [ raised |-> terms[CHOOSE q \in bad : \A r \in bad : q <= r].raised,
                     value |-> 0 ]
              ELSE [ raised |-> "none",
                     value |-> SumSeq([q \in DOMAIN terms |-> terms[q].value], 1) ]

\* BM25.get_scores, lines 53-88
GetScores(bm25, query, corpus) ==
    LET query_tokens == Tokenize(query)
        per_doc == [idx \in 1..Len(corpus) |->
                      DocScore(bm25, query_tokens, corpus[idx], idx)]
        bad == { idx \in DOMAIN per_doc : per_doc[idx].raised # "none" }
    IN IF bad # {}
         THEN [ raised |-> per_doc[CHOOSE i \in bad : \A j \in bad : i <= j].raised,
                scores |-> << >> ]
         ELSE [ raised |-> "none",
                scores |-> [idx \in DOMAIN per_doc |-> per_doc[idx].value] ]

\* a corpus and the corpora that differ from it in one document
Variants(corpus) ==
    { corpus } \cup { [corpus EXCEPT ![i] = d] : i \in DOMAIN corpus, d \in Docs }

NoScores == [ raised |-> "none", scores |-> << >> ]

InitBM25 ==
    /\ InitProvider
    /\ provider = "local"
    /\ ck = Idle /\ rrf = Idle /\ ab = Idle
    /\ sr = Idle /\ ing = Idle /\ qd = Idle /\ rad = Idle
    /\ hr = Idle /\ th = Idle
    /\ bm = [ active |-> TRUE, bm25 |-> NewBM25, fitted |-> << >>,
              op |-> "none", query |-> << >>, corpus |-> << >>,
              outcome |-> NoScores ]

BM25Frame == UNCHANGED << providerVars, ck, rrf, ab, sr, ing, qd, rad, hr, th >>

\* bm25.fit(corpus).  get_scores leaves the object as it found it, so the
\* calls after a get_scores are the calls from the state before it.
FitCall ==
    /\ bm.active /\ bm.op # "get_scores"
    /\ \E corpus \in Corpora(MaxCorpus) :
         bm' = [bm EXCEPT !.bm25 = Fit(@, corpus), !.fitted = corpus,
                          !.op = "fit", !.query = << >>, !.corpus = corpus,
                          !.outcome = NoScores]
    /\ BM25Frame

\* bm25.get_scores(query, corpus) on the fitted corpus or on one that
\* differs from it in one document
GetScoresCall ==
    /\ bm.active /\ bm.op # "get_scores"
    /\ \E query \in Queries, corpus \in Variants(bm.fitted) :
         bm' = [bm EXCEPT !.op = "get_scores", !.query = query,
                          !.corpus = corpus,
                          !.outcome = GetScores(bm.bm25, query, corpus)]
    /\ BM25Frame

NextBM25 == FitCall \/ GetScoresCall

SpecBM25 == InitBM25 /\ [][NextBM25]_vars

(***************************************************************************)
(* HybridRetriever with its BM25 object (retrieval.py lines 91-250).  The  *)
(* index answers a dense search with its points nearest first; a result    *)
(* carries the id, the text and the score of a point (source, chunk_index  *)
(* and metadata are copied along with them and never read).  A hybrid      *)
(* search asks the index twice, and the index may have changed in between. *)
(* hr.bm25 is self.bm25, which lives as long as the retriever; hr.last is  *)
(* the call under observation, the last of the run: the calls before it    *)
(* leave only their effect on the retriever.                               *)
(***************************************************************************)
\* most points the index holds
MaxHits == 2

PointTexts == { <<"a">>, <<"a", SP, "b">> }

RetrieverQueries == { <<SP>>, <<"a">>, <<"B", SP, "a">> }

RetrieverInitialKs == { 1, INITIAL_K_DEFAULT }

RetrieverModes == { "dense", "sparse", "hybrid", "semantic" }

PointIds == { "A", "B", "C" }

Points == [ id : PointIds, text : PointTexts ]

IndexAnswers ==
    { hits \in SeqsUpTo(Points, MaxHits) :
        \A i, j \in DOMAIN hits : hits[i].id = hits[j].id => i = j }

\* an id no point of the answer has
NewId(hits) ==
    CHOOSE id \in PointIds : \A i \in DOMAIN hits : hits[i].id # id

\* the answers the index may give to the second dense search of a call: the
\* same, or the nearest point was deleted, or a new nearest point was stored
Later(hits) ==
    { hits }
      \cup (IF hits # << >> THEN { Tail(hits) } ELSE {})
      \cup (IF Len(hits) < MaxHits /\ Len(hits) < Cardinality(PointIds)
              THEN { << [ id |-> NewId(hits), text |-> text ] >> \o hits :
                       text \in PointTexts }
              ELSE {})

\* hit.score of the hit at a rank, in units of 1e-4: nearer is higher
Similarity(rank) == 9000 - 1000 * rank

\* _dense_search, lines 199-217
DenseSearchIn(hits, top_k) ==
    [ i \in 1..Min(top_k, Len(hits)) |->
        [ id |-> hits[i].id, text |-> hits[i].text, score |-> Similarity(i) ] ]

\* line 248: candidates.sort(key=lambda x: x['score'], reverse=True); the
\* sort is stable, candidates of equal score keep their order
Before_Ascending(scores, i, j) ==
    scores[i] < scores[j] \/ (scores[i] = scores[j] /\ i < j)

Before(scores, i, j) ==
    scores[i] > scores[j] \/ (scores[i] = scores[j] /\ i < j)

SortByScore(candidates) ==
    LET scores == [i \in DOMAIN candidates |-> candidates[i].score]
        pos(i) == 1 + Cardinality({ j \in DOMAIN candidates : Before(scores, j, i) })
    IN [ p \in DOMAIN candidates |->
           candidates[CHOOSE i \in DOMAIN candidates : pos(i) = p] ]

TextsOf(candidates) == [i \in DOMAIN candidates |-> candidates[i].text]

\* _sparse_search, lines 231-250
SparseSearchIn(bm25, hits, query, top_k, initial_k) ==
    LET candidates == DenseSearchIn(hits, initial_k) IN
    IF candidates = << >>
      THEN [ bm25 |-> bm25, raised |-> "none", results |-> << >> ]
    ELSE LET corpus == TextsOf(candidates)
             fitted == Fit(bm25, corpus)
             bm25_scores == GetScores(fitted, query, corpus)
         IN IF bm25_scores.raised # "none"
              THEN [ bm25 |-> fitted, raised |-> bm25_scores.raised, results |-> << >> ]
              ELSE [ bm25 |-> fitted, raised |-> "none",
                     results |->
                       Take(SortByScore([i \in DOMAIN candidates |->
                              [candidates[i] EXCEPT !.score = bm25_scores.scores[i]]]),
                            top_k) ]

\* lines 186-187: how many results the hybrid mode asks of _sparse_search
SparseLimit_TopK(top_k, initial_k) == top_k

SparseLimit(top_k, initial_k) == initial_k

\* lines 143-146 with the sparse list looked at first
FirstOf_SparseFirst(dense_results, sparse_results) ==
    ResultsMap(sparse_results, dense_results)

FirstOf(dense_results, sparse_results) == ResultsMap(dense_results, sparse_results)

\* _reciprocal_rank_fusion, lines 124-155, on results with their fields
MergedLists(rrf_k, dense_results, sparse_results) ==
    LET rrf_scores == RrfScores(rrf_k, dense_results, sparse_results)
        results_map == FirstOf(dense_results, sparse_results)
    IN  { [i \in 1..Len(order) |->
             [ id |-> order[i], text |-> results_map[order[i]].text,
               score |-> results_map[order[i]].score,
               rrf_score |-> rrf_scores[order[i]] ]]
          : order \in SortedIds(rrf_scores) }

Ended(bm25, outcome, dense_results, sparse_results) ==
    [ bm25 |-> bm25, outcome |-> outcome,
      dense_results |-> dense_results, sparse_results |-> sparse_results ]

\* get_embedding(query) in _dense_search, line 197: a blank query raises
QueryRaises(query) ==
    IF IsBlank(query) THEN Raised("ValueError", "Cannot embed empty text")
    ELSE Returned(<< >>)

\* HybridRetriever.search, lines 176-193, from the retriever state bm25:
\* hits answers the first dense search of the call, hits2 the second
SearchIn(bm25, mode, query, top_k, initial_k, hits, hits2) ==
    IF mode \notin { "dense", "sparse", "hybrid" }
      THEN { Ended(bm25, Raised("ValueError", UnknownMode), << >>, << >>) }
    ELSE IF QueryRaises(query).raised
      THEN { Ended(bm25, QueryRaises(query), << >>, << >>) }
    ELSE IF mode = "dense"
      THEN { Ended(bm25, Returned(DenseSearchIn(hits, top_k)),
                   DenseSearchIn(hits, top_k), << >>) }
    ELSE IF mode = "sparse"
      THEN LET s == SparseSearchIn(bm25, hits, query, top_k, initial_k) IN
           IF s.raised # "none"
             THEN { Ended(s.bm25, Raised(s.raised, "get_scores"), << >>, << >>) }
             ELSE { Ended(s.bm25, Returned(s.results), << >>, s.results) }
    ELSE LET dense_results == DenseSearchIn(hits, initial_k)
             s == SparseSearchIn(bm25, hits2, query,
                                 SparseLimit(top_k, initial_k), initial_k)
         IN IF s.raised # "none"
              THEN { Ended(s.bm25, Raised(s.raised, "get_scores"), dense_results, << >>) }
              ELSE { Ended(s.bm25, Returned(Take(merged, top_k)), dense_results,
                           s.results)
                     : merged \in MergedLists(RRF_K_DEFAULT, dense_results, s.results) }

NoSearch ==
    [ mode |-> "none", query |-> << >>, top_k |-> 0, initial_k |-> 0,
      hits |-> << >>, hits2 |-> << >>, pre |-> NewBM25,
      outcome |-> Returned(<< >>), dense_results |-> << >>,
      sparse_results |-> << >> ]

\* HybridRetriever.__init__, lines 104-106
InitRetriever ==
    /\ InitProvider
    /\ provider = "local"
    /\ ck = Idle /\ rrf = Idle /\ ab = Idle
    /\ sr = Idle /\ ing = Idle /\ qd = Idle /\ rad = Idle /\ bm = Idle /\ th = Idle
    /\ hr = [ active |-> TRUE, rrf_k |-> RRF_K_DEFAULT, bm25 |-> NewBM25,
              last |-> NoSearch ]

\* retriever.search(query, top_k, mode, initial_k)
RetrieverSearch ==
    /\ hr.active /\ hr.last.mode = "none"
    /\ \E observed \in BOOLEAN, mode \in RetrieverModes, query \in RetrieverQueries,
          top_k \in 1..MaxTopK, initial_k \in RetrieverInitialKs,
          hits \in IndexAnswers :
         \E hits2 \in (IF mode = "hybrid" THEN Later(hits) ELSE { hits }) :
           \E o \in SearchIn(hr.bm25, mode, query, top_k, initial_k, hits, hits2) :
             hr' = [hr EXCEPT
                      !.bm25 = o.bm25,
                      !.last = IF observed
                                 THEN [ mode |-> mode, query |-> query,
                                        top_k |-> top_k, initial_k |-> initial_k,
                                        hits |-> hits, hits2 |-> hits2,
                                        pre |-> hr.bm25,
                                        outcome |-> o.outcome,
                                        dense_results |-> o.dense_results,
                                        sparse_results |-> o.sparse_results ]
                                 ELSE @]
    /\ UNCHANGED << providerVars, ck, rrf, ab, sr, ing, qd, rad, bm, th >>

NextRetriever == RetrieverSearch

SpecRetriever == InitRetriever /\ [][NextRetriever]_vars


(***************************************************************************)
(* Concurrent calls of EmbeddingProvider.embed on one provider.  The       *)
(* method takes no lock, so calls running in different threads interleave  *)
(* between its statements, and "self.x += 1" is a read of the attribute    *)
(* followed by a write of the sum.  th.calls[i] is call i: its text, the   *)
(* statement it stands at, the counter value it has read, the vector it    *)
(* got from the backend and how it ended.  th.answers[t] collects the      *)
(* vectors the backend returned for text t.                                *)
(***************************************************************************)
\* most calls running at once
MaxThreads == 2

ThreadTexts == { <<SP>>, <<"a">>, <<"b">> }

\* the backend answers a text with any vector, or is unavailable
ThreadBackend ==
    [ ok : {TRUE}, vec : Vectors, failure : {"none"} ]
      \cup { [ ok |-> FALSE, vec |-> NoVec, failure |-> "unavailable" ] }

NewCall(text) ==
    [ text |-> text, pc |-> "call", tmp |-> 0, vec |-> NoVec,
      status |-> "running", error |-> NoError, result |-> NoVec ]

InitThreads ==
    /\ InitProvider
    /\ provider = "local"
    /\ ck = Idle /\ rrf = Idle /\ ab = Idle
    /\ sr = Idle /\ ing = Idle /\ qd = Idle /\ rad = Idle /\ bm = Idle /\ hr = Idle
    /\ \E n \in 1..MaxThreads :
         \E texts \in [1..n -> ThreadTexts] :
           th = [ active |-> TRUE,
                  calls |-> [i \in 1..n |-> NewCall(texts[i])],
                  answers |-> [t \in Texts |-> {}] ]

ThreadFrame ==
    UNCHANGED << provider, cost_per_1k_tokens, total_cost, returned, computed,
                 last, ck, rrf, ab, sr, ing, qd, rad, bm, hr >>

At(i, pc) == th.active /\ i \in DOMAIN th.calls /\ th.calls[i].pc = pc

\* lines 41-47: the blank check, the key, "if cache_key in self.cache"
EmbedEnter(i) ==
    /\ At(i, "call")
    /\ LET c == th.calls[i] IN
         th' = IF IsBlank(c.text)
                 THEN [th EXCEPT !.calls[i].pc = "done",
                                 !.calls[i].status = "error",
                                 !.calls[i].error =
                                     [type |-> "ValueError",
                                      cause |-> "Cannot embed empty text"]]
               ELSE IF cache[CacheKey(c.text)] # NoVec
                 THEN [th EXCEPT !.calls[i].pc = "hit_load"]
               ELSE [th EXCEPT !.calls[i].pc = "backend"]
    /\ UNCHANGED << cache, total_embeddings, cached_embeddings, backend_calls >>
    /\ ThreadFrame

\* line 48, "self.cached_embeddings += 1": the read
EmbedHitLoad(i) ==
    /\ At(i, "hit_load")
    /\ th' = [th EXCEPT !.calls[i].pc = "hit_store",
                        !.calls[i].tmp = cached_embeddings]
    /\ UNCHANGED << cache, total_embeddings, cached_embeddings, backend_calls >>
    /\ ThreadFrame

\* line 48, "self.cached_embeddings += 1": the write
EmbedHitStore(i) ==
    /\ At(i, "hit_store")
    /\ cached_embeddings' = th.calls[i].tmp + 1
    /\ th' = [th EXCEPT !.calls[i].pc = "hit_return"]
    /\ UNCHANGED << cache, total_embeddings, backend_calls >>
    /\ ThreadFrame

\* line 49, "return self.cache[cache_key]"
EmbedHitReturn(i) ==
    /\ At(i, "hit_return")
    /\ th' = [th EXCEPT !.calls[i].pc = "done",
                        !.calls[i].status = "ok",
                        !.calls[i].result = cache[CacheKey(th.calls[i].text)]]
    /\ UNCHANGED << cache, total_embeddings, cached_embeddings, backend_calls >>
    /\ ThreadFrame

\* lines 52-53 and 57-58: "embedding = self._embed_single(text)", re-raised
\* as RuntimeError if it raises
EmbedBackend(i) ==
    /\ At(i, "backend")
    /\ backend_calls' = backend_calls + 1
    /\ \E out \in ThreadBackend :
         th' = IF out.ok
                 THEN [th EXCEPT !.calls[i].pc = "miss_load",
                                 !.calls[i].vec = out.vec,
                                 !.answers[th.calls[i].text] = @ \cup { out.vec }]
                 ELSE [th EXCEPT !.calls[i].pc = "done",
                                 !.calls[i].status = "error",
                                 !.calls[i].error =
                                     [type |-> "RuntimeError", cause |-> out.failure]]
    /\ UNCHANGED << cache, total_embeddings, cached_embeddings >>
    /\ ThreadFrame

\* line 54, "self.total_embeddings += 1": the read
EmbedMissLoad(i) ==
    /\ At(i, "miss_load")
    /\ th' = [th EXCEPT !.calls[i].pc = "miss_store",
                        !.calls[i].tmp = total_embeddings]
    /\ UNCHANGED << cache, total_embeddings, cached_embeddings, backend_calls >>
    /\ ThreadFrame

\* line 54, "self.total_embeddings += 1": the write
EmbedMissStore(i) ==
    /\ At(i, "miss_store")
    /\ total_embeddings' = th.calls[i].tmp + 1
    /\ th' = [th EXCEPT !.calls[i].pc = "miss_cache"]
    /\ UNCHANGED << cache, cached_embeddings, backend_calls >>
    /\ ThreadFrame

\* lines 55-56: "self.cache[cache_key] = embedding; return embedding"
EmbedMissCache(i) ==
    /\ At(i, "miss_cache")
    /\ cache' = [cache EXCEPT ![CacheKey(th.calls[i].text)] = th.calls[i].vec]
    /\ th' = [th EXCEPT !.calls[i].pc = "done",
                        !.calls[i].status = "ok",
                        !.calls[i].result = th.calls[i].vec]
    /\ UNCHANGED << total_embeddings, cached_embeddings, backend_calls >>
    /\ ThreadFrame

NextThreads ==
    \E i \in 1..MaxThreads :
      \/ EmbedEnter(i)
      \/ EmbedHitLoad(i)
      \/ EmbedHitStore(i)
      \/ EmbedHitReturn(i)
      \/ EmbedBackend(i)
      \/ EmbedMissLoad(i)
      \/ EmbedMissStore(i)
      \/ EmbedMissCache(i)

SpecThreads == InitThreads /\ [][NextThreads]_vars


(***************************************************************************)
(* Properties of the EmbeddingProvider, stated on the latest call and the  *)
(* state it started from.                                                  *)
(***************************************************************************)
\* empty, or nothing but whitespace characters
AllWhitespace(text) == \A i \in 1..Len(text) : text[i] = SP

\* C1: a non-blank text that embed has already returned a vector for is
\* answered again with the identical vector; the call adds exactly 1 to
\* cached_embeddings, does not invoke the backend, and leaves
\* total_embeddings, total_cost and the cache as they were.
C1_CacheHitIdempotent ==
    ( /\ last.op = "embed"
      /\ ~AllWhitespace(last.arg)
      /\ last.pre.returned[last.arg] # NoVec )
    => /\ last.status = "ok"
       /\ last.result = last.pre.returned[last.arg]
       /\ cached_embeddings = last.pre.cached_embeddings + 1
       /\ backend_calls = last.pre.backend_calls
       /\ total_embeddings = last.pre.total_embeddings
       /\ total_cost = last.pre.total_cost
       /\ cache = last.pre.cache

C1_Witness ==
    /\ last.op = "embed"
    /\ ~AllWhitespace(last.arg)
    /\ last.pre.returned[last.arg] # NoVec
    /\ last.status = "ok"
    /\ last.pre.cached_embeddings >= 1

\* C2: embed of an empty or whitespace-only text fails with the empty-input
\* error (ValueError "Cannot embed empty text"); the backend is not invoked
\* and the cache and the three counters are unchanged.
C2_BlankRejected ==
    ( last.op = "embed" /\ AllWhitespace(last.arg) )
    => /\ last.status = "error"
       /\ last.error = [type |-> "ValueError", cause |-> "Cannot embed empty text"]
       /\ backend_calls = last.pre.backend_calls
       /\ cache = last.pre.cache
       /\ cached_embeddings = last.pre.cached_embeddings
       /\ total_embeddings = last.pre.total_embeddings
       /\ total_cost = last.pre.total_cost

C2_Witness ==
    /\ last.op = "embed"
    /\ last.arg = <<SP>>
    /\ last.status = "error"
    /\ last.pre.total_embeddings >= 1

\* C3: a successful embed of a non-blank text whose key was absent invokes
\* the backend exactly once, stores the backend's vector under the text's
\* key (and nothing else changes in the cache), adds exactly 1 to
\* total_embeddings, leaves cached_embeddings alone and does not decrease
\* total_cost, which stays 0 for the local backend.
C3_CacheMissStores ==
    ( /\ last.op = "embed"
      /\ ~AllWhitespace(last.arg)
      /\ last.pre.cache[CacheKey(last.arg)] = NoVec
      /\ last.status = "ok" )
    => /\ backend_calls = last.pre.backend_calls + 1
       /\ last.result \in Vectors
       /\ last.result = computed[last.arg]
       /\ cache = [last.pre.cache EXCEPT ![CacheKey(last.arg)] = last.result]
       /\ total_embeddings = last.pre.total_embeddings + 1
       /\ cached_embeddings = last.pre.cached_embeddings
       /\ total_cost >= last.pre.total_cost
       /\ (provider = "local" => total_cost = 0)

C3_Witness ==
    /\ last.op = "embed"
    /\ last.arg = <<"a", SP, "b">>
    /\ last.pre.cache[CacheKey(last.arg)] = NoVec
    /\ last.status = "ok"
    /\ provider = "openai"
    /\ total_cost > last.pre.total_cost
    /\ last.pre.total_embeddings >= 1

\* C5: an embed_batch call that returns yields one vector per non-blank
\* entry, in the order of those entries, each the vector embed gives for
\* that entry; blank entries yield no element and raise nothing.
C5_BatchDropsBlanks ==
    last.op = "embed_batch"
    => LET kept == SelectSeq(last.arg, LAMBDA t : ~AllWhitespace(t)) IN
       /\ last.status = "ok"
            => /\ Len(last.result) = Len(kept)
               /\ \A j \in 1..Len(kept) :
                    /\ last.result[j] = cache[CacheKey(kept[j])]
                    /\ last.result[j] = returned[kept[j]]
       /\ last.status = "error" => last.error.type = "RuntimeError"
       /\ kept = << >> => last.status = "ok"

C5_Witness ==
    /\ last.op = "embed_batch"
    /\ last.status = "ok"
    /\ Len(last.arg) = 2
    /\ AllWhitespace(last.arg[1])
    /\ ~AllWhitespace(last.arg[2])
    /\ Len(last.result) = 1

\* C6: when the backend call inside embed fails, the backend was invoked
\* once and the error the caller sees is AuthenticationError, RateLimitError,
\* QuotaExceededError or BackendUnavailableError according to the failure.
ErrorClassOf(failure) ==
    CASE failure = "authentication" -> "AuthenticationError"
      [] failure = "rate_limit"     -> "RateLimitError"
      [] failure = "quota"          -> "QuotaExceededError"
      [] failure = "unavailable"    -> "BackendUnavailableError"

C6_FailureClassified ==
    ( /\ last.op = "embed"
      /\ last.status = "error"
      /\ backend_calls > last.pre.backend_calls )
    => /\ backend_calls = last.pre.backend_calls + 1
       /\ last.error.type = ErrorClassOf(last.error.cause)

(***************************************************************************)
(* Properties of chunk_text.                                               *)
(***************************************************************************)
\* ceil(a / b) for b > 0
CeilDiv(a, b) == -((-a) \div b)

\* C7: with N >= 1 tokens, overlap >= 0 and chunk_size - overlap >= 1 the
\* call returns exactly 1 chunk when N <= chunk_size and
\* ceil((N - overlap) / (chunk_size - overlap)) chunks otherwise, and window
\* i starts at token offset i * (chunk_size - overlap).
C7_ChunkCount ==
    LET N == Len(ck.tokens)
        stride == ck.chunk_size - ck.overlap
    IN  ( ck.active /\ ck.pc = "done" /\ N >= 1 /\ ck.overlap >= 0 /\ stride >= 1 )
        => /\ Len(ck.chunks) =
                IF N <= ck.chunk_size THEN 1 ELSE CeilDiv(N - ck.overlap, stride)
           /\ \A i \in 1..Len(ck.chunks) :
                /\ ck.chunks[i] # << >>
                /\ ck.chunks[i][1] = (i - 1) * stride

\* C8: a call with chunk_size - overlap < 1 fails with an invalid-chunk-
\* configuration error: it produces no chunk and does not return a list.
C8_InvalidConfigRejected ==
    ( ck.active /\ ck.chunk_size - ck.overlap < 1 )
    => ( ck.chunks = << >> /\ ck.pc # "done" )

(***************************************************************************)
(* Properties of the reciprocal-rank fusion.                               *)
(***************************************************************************)
IdsOf(results) == { results[i].id : i \in 1..Len(results) }

\* the 0-based position of id in results
PositionOf(results, id) == (CHOOSE i \in 1..Len(results) : results[i].id = id) - 1

\* the sum, over the lists that contain id, of 1 / (rrf_k + position + 1)
ExpectedRrf(id) ==
    LET inDense == id \in IdsOf(rrf.dense_results)
        inSparse == id \in IdsOf(rrf.sparse_results)
        dTerm == << 1, rrf.rrf_k + PositionOf(rrf.dense_results, id) + 1 >>
        sTerm == << 1, rrf.rrf_k + PositionOf(rrf.sparse_results, id) + 1 >>
    IN  CASE inDense /\ inSparse  -> FracAdd(dTerm, sTerm)
          [] inDense /\ ~inSparse -> dTerm
          [] ~inDense /\ inSparse -> sTerm

\* C9: the fusion scores exactly the identifiers of the dense or the sparse
\* list, each once, and the score of an identifier is the sum over the lists
\* containing it of 1 / (rrf_k + rank + 1), rank its 0-based position there.
C9_RrfScore ==
    ( rrf.active /\ rrf.pc = "done" )
    => /\ IdsOf(rrf.merged) = IdsOf(rrf.dense_results) \cup IdsOf(rrf.sparse_results)
       /\ Len(rrf.merged) = Cardinality(IdsOf(rrf.merged))
       /\ \A i \in 1..Len(rrf.merged) :
            FracEq(rrf.merged[i].rrf_score, ExpectedRrf(rrf.merged[i].id))

C9_Witness ==
    /\ rrf.active /\ rrf.pc = "done"
    /\ \E i, j \in 1..Len(rrf.merged) :
         /\ rrf.merged[i].id \in IdsOf(rrf.dense_results) \cap IdsOf(rrf.sparse_results)
         /\ rrf.merged[j].id \in IdsOf(rrf.sparse_results) \ IdsOf(rrf.dense_results)

\* the example of the specification: dense [A, B, C], sparse [B, C, D], 60
IsExample ==
    /\ rrf.active /\ rrf.pc = "done"
    /\ rrf.rrf_k = 60
    /\ rrf.dense_results = Results(<<"A", "B", "C">>, "dense")
    /\ rrf.sparse_results = Results(<<"B", "C", "D">>, "sparse")

ScoreIn(merged, id) == (CHOOSE r \in { merged[i] : i \in 1..Len(merged) } : r.id = id).rrf_score

NonIncreasing(merged) ==
    \A i \in 1..(Len(merged) - 1) :
        FracLeq(merged[i + 1].rrf_score, merged[i].rrf_score)

\* C10 as stated: in the example B scores 1/61 + 1/61, D scores 1/63, and
\* the fused list is non-increasing in score.
C10_ExampleAsStated ==
    IsExample
    => /\ FracEq(ScoreIn(rrf.merged, "B"), << 2, 61 >>)
       /\ FracEq(ScoreIn(rrf.merged, "D"), << 1, 63 >>)
       /\ NonIncreasing(rrf.merged)

\* C10, amended: in the example B, second in the dense list and first in
\* the sparse list, scores 1/62 + 1/61; D scores 1/63; the fused list is
\* non-increasing in score.
C10_Example ==
    IsExample
    => /\ FracEq(ScoreIn(rrf.merged, "B"), << 61 + 62, 61 * 62 >>)
       /\ FracEq(ScoreIn(rrf.merged, "D"), << 1, 63 >>)
       /\ NonIncreasing(rrf.merged)

C10_Witness == IsExample /\ Len(rrf.merged) = 4

(***************************************************************************)
(* Properties of the concurrent batch embedding.                           *)
(***************************************************************************)
\* C4: whatever order the batches finish in, the returned list has one
\* vector per input text and vector i is the embedding of texts[i]; at no
\* time are more than max_concurrent batches in flight.
C4_AlignedAndBounded ==
    ab.active
    => /\ Cardinality(Running) <= ab.max_concurrent
       /\ ab.pc = "returned"
            => /\ Len(ab.out) = Len(ab.texts)
               /\ \A i \in 1..Len(ab.texts) :
                    /\ ab.out[i] # NoVec
                    /\ ab.out[i] = computed[ab.texts[i]]

C4_Witness ==
    /\ ab.active /\ ab.pc = "returned"
    /\ Len(ab.arrival) >= 2
    /\ ab.arrival[1] > ab.arrival[2]
    /\ ab.out[1] # ab.out[Len(ab.out)]

(***************************************************************************)
(* Properties of the search entry points.                                  *)
(***************************************************************************)
\* C11: on every public entry point a search whose mode is not dense,
\* sparse or hybrid fails with the invalid-mode error that names the valid
\* modes, and returns no results (a call that already failed to embed the
\* query aside).
C11_UnknownModeRejected ==
    ( /\ sr.active
      /\ sr.entry # "none"
      /\ sr.mode \notin { "dense", "sparse", "hybrid" }
      /\ sr.outcome.error.type # "RuntimeError" )
    => /\ sr.outcome.raised
       /\ sr.outcome.error = [type |-> "ValueError", cause |-> UnknownMode]
       /\ sr.outcome.results = << >>


(***************************************************************************)
(* Properties of file and directory ingestion.  ing.seen[f] is what was    *)
(* read from file f, ing.thrown[f] what was raised while it was ingested,  *)
(* ing.file_results[f] what its ingestion returned.                        *)
(***************************************************************************)
Count(details, status) ==
    Cardinality({ i \in DOMAIN details : details[i].status = status })

UpsertsOf(path) == SelectSeq(qd.upserts, LAMBDA u : u.file = path)

Handled(f) == ing.active /\ f \in DOMAIN ing.files /\ ing.task[f] = "done"

ZeroChunks(f) == ing.seen[f].raised = "none" /\ ing.seen[f].chunks = << >>

DirReturned == ing.active /\ ing.pc = "returned"

\* C12: a file that yields no chunk is reported skipped with 0 chunks and
\* nothing is written for it; in the summary of a directory run it is not
\* counted as failed, so failed never exceeds the number of files that
\* yielded chunks or raised.
C12_SkippedNotFailed ==
    /\ \A f \in DOMAIN ing.files :
         (Handled(f) /\ ZeroChunks(f))
           => /\ ing.file_results[f].status = "skipped"
              /\ ing.file_results[f].chunks_ingested = 0
              /\ UpsertsOf(ing.files[f]) = << >>
    /\ DirReturned
         => ing.results.failed
              <= Cardinality({ f \in DOMAIN ing.files : ~ZeroChunks(f) })


Threw(f) == ing.thrown[f] # NoError

Valid(f) == ~Threw(f) /\ ing.seen[f].chunks # << >>

\* C13: in a directory ingestion over existing files, a file whose read,
\* chunking, embedding or upsert raises is reported failed with the message
\* of what was raised; the call itself never fails; every file that did not
\* raise and has chunks is ingested with status success; the call returns a
\* summary with one entry per file, and when every file is either valid or
\* raised, successful counts the valid files and failed the raising ones (one
\* raising file among n gives successful = n - 1 and failed = 1).
C13_FailureIsolated ==
    (ing.active /\ ing.dir_exists /\ ing.files # << >>)
      => /\ ing.pc # "raised"
         /\ \A f \in DOMAIN ing.files :
              Handled(f)
                => /\ Threw(f)
                        => ing.file_results[f] =
                             [ file |-> ing.files[f], chunks_ingested |-> 0,
                               status |-> "failed", error |-> ing.thrown[f] ]
                   /\ Valid(f)
                        => /\ ing.file_results[f].status = "success"
                           /\ \E k \in DOMAIN qd.upserts :
                                qd.upserts[k].file = ing.files[f] /\ qd.upserts[k].ok
         /\ DirReturned
              => /\ \A f \in DOMAIN ing.files : Handled(f)
                 /\ Len(ing.results.details) = Len(ing.files)
                 /\ \A f \in DOMAIN ing.files :
                      ing.results.details[f] = ing.file_results[f]
                 /\ (\A f \in DOMAIN ing.files : Threw(f) \/ Valid(f))
                      => /\ ing.results.failed =
                              Cardinality({ f \in DOMAIN ing.files : Threw(f) })
                         /\ ing.results.successful =
                              Cardinality({ f \in DOMAIN ing.files : Valid(f) })

\* a returned run of MaxFiles files in which the first file raised and the
\* files after it were ingested
C13_Witness ==
    /\ DirReturned
    /\ Len(ing.files) = MaxFiles
    /\ Threw(1)
    /\ \A f \in 2..MaxFiles : Valid(f)
    /\ ing.results.failed = 1
    /\ ing.results.successful = MaxFiles - 1
    /\ Len(ing.results.details) = MaxFiles


RECURSIVE SumChunks(_, _)
SumChunks(details, i) ==
    IF i > Len(details) THEN 0
    ELSE (IF details[i].status = "success" THEN details[i].chunks_ingested ELSE 0)
           + SumChunks(details, i + 1)

\* C14: in every summary a directory ingestion returns, details has exactly
\* total_files entries, one for each distinct file and carrying that file's
\* path; successful is the number of entries with status success, failed the
\* number with status failed, and total_chunks the sum of chunks_ingested
\* over the success entries.
C14_SummaryConsistent ==
    DirReturned
      => LET r == ing.results IN
         /\ r.total_files = Len(ing.files)
         /\ Len(r.details) = r.total_files
         /\ { r.details[i].file : i \in DOMAIN r.details }
              = { ing.files[f] : f \in DOMAIN ing.files }
         /\ r.successful = Count(r.details, "success")
         /\ r.failed = Count(r.details, "failed")
         /\ r.total_chunks = SumChunks(r.details, 1)


\* C15: during a concurrent directory ingestion the number of file
\* ingestions in flight never exceeds max_concurrent_files; a file is in
\* flight only while it holds the gate, and a finished file, failed or not,
\* has given it back: the gate's free count is max_concurrent_files minus
\* the number in flight.
C15_BoundedConcurrency ==
    (ing.active /\ ing.mode = "async")
      => /\ Cardinality(InFlight) <= ing.max_concurrent_files
         /\ ing.semaphore >= 0
         /\ ing.semaphore = ing.max_concurrent_files - Cardinality(InFlight)

\* the gate is full, a file is waiting for it, and a file that failed after
\* being in flight has already left
C15_Witness ==
    /\ ing.active /\ ing.mode = "async" /\ ing.pc = "gather"
    /\ ing.max_concurrent_files = 1
    /\ Cardinality(InFlight) = 1
    /\ ing.semaphore = 0
    /\ \E f \in DOMAIN ing.files : ing.task[f] = "waiting"
    /\ \E f \in DOMAIN ing.files :
         /\ ing.task[f] = "done"
         /\ ing.file_results[f].status = "failed"
         /\ ing.seen[f].raised = "none"


ConcurrentRun ==
    /\ ing.active /\ ing.mode = "async"
    /\ ing.dir_exists /\ ing.files # << >>
    /\ ing.max_concurrent_files >= 1

\* C16: a concurrent directory ingestion over existing files with
\* max_concurrent_files >= 1, in which every file ingestion that is started
\* finishes, eventually has started and completed every file and returned
\* its summary; what a file's ingestion raises is recorded as that file's
\* failed outcome and the call itself never fails.
C16_AllFilesComplete ==
    /\ ConcurrentRun
         ~> ( /\ ing.pc = "returned"
              /\ \A f \in DOMAIN ing.files : ing.task[f] = "done"
              /\ Len(ing.results.details) = Len(ing.files) )
    /\ [](ConcurrentRun
            => /\ ing.pc # "raised"
               /\ \A f \in DOMAIN ing.files :
                    (ing.task[f] = "done" /\ Threw(f))
                      => ing.file_results[f].status = "failed")

\* a returned concurrent run through a gate of one in which a file failed
\* while in flight and a file started after it succeeded
C16_Witness ==
    /\ ConcurrentRun /\ ing.pc = "returned"
    /\ ing.max_concurrent_files = 1
    /\ Len(ing.files) = MaxFiles
    /\ \E f \in DOMAIN ing.files :
         /\ Threw(f) /\ ing.seen[f].raised = "none"
         /\ ing.results.details[f].status = "failed"
    /\ \E f \in DOMAIN ing.files : ing.results.details[f].status = "success"


\* C17: a directory ingestion, sequential or concurrent, whose pattern
\* matches no file ends with an error and never with a summary, and at no
\* point of it has a text been embedded or anything been sent to the index.
C17_NoFilesFails ==
    (ing.active /\ ing.files = << >>)
      => /\ ing.pc \in { "call", "raised" }
         /\ ing.pc = "raised" => ing.error.type = "ValueError"
         /\ ing.results = NewResults(<< >>)
         /\ backend_calls = 0
         /\ total_embeddings = 0 /\ cached_embeddings = 0
         /\ qd.upserts = << >>

\* an existing directory without a matching file, after the call failed
C17_Witness ==
    /\ ing.active /\ ing.dir_exists /\ ing.files = << >>
    /\ ing.pc = "raised"
    /\ ing.error = [type |-> "ValueError", cause |-> "No files matching"]


\* C18: for a file reported success with chunks_ingested = n, exactly one
\* upsert was issued for it and it carries exactly n points; point i has the
\* text of chunk i, chunk_index i, total_chunks n and the embedding computed
\* from the text of chunk i.  It is stated for every chunk sequence, one
\* with a whitespace-only chunk included.
C18_PointsMatchChunks ==
    \A f \in DOMAIN ing.files :
      (Handled(f) /\ ing.file_results[f].status = "success")
        => LET n == ing.file_results[f].chunks_ingested
               chunks == ing.seen[f].chunks
               ups == UpsertsOf(ing.files[f])
           IN /\ n = Len(chunks)
              /\ Len(ups) = 1
              /\ Len(ups[1].points) = n
              /\ \A i \in 1..n :
                   /\ ups[1].points[i].payload.text = chunks[i]
                   /\ ups[1].points[i].payload.chunk_index = i - 1
                   /\ ups[1].points[i].payload.total_chunks = n
                   /\ ups[1].points[i].vector = computed[chunks[i]]


(***************************************************************************)
(* Properties of Radiate's collections, stated on the server state and on  *)
(* the latest call (rad.last, with the state before it in rad.last.pre).   *)
(***************************************************************************)
\* C19: after any sequence of Radiate initialisations, ingestions and
\* delete_collection calls, every vector stored in a collection has the
\* length the collection was configured with; and an initialisation that
\* names an existing collection of another dimension fails, with the
\* dimension-mismatch error when the check is reached, and neither creates,
\* deletes nor changes any collection.
C19_DimensionKept ==
    rad.active
      => /\ \A c \in CollectionNames :
              qd.collections[c].exists
                => \A i \in DOMAIN qd.collections[c].points :
                     qd.collections[c].points[i] = qd.collections[c].size
         /\ \A c \in CollectionNames :
              ~qd.collections[c].exists => qd.collections[c].points = << >>
         /\ LET l == rad.last
                before == l.pre[l.inst.collection_name]
            IN (l.op = "init" /\ before.exists /\ before.size # l.inst.embedding_dim)
                 => /\ l.raised
                    /\ l.reached
                         => l.error = [type |-> "ValueError",
                                       cause |-> "Dimension mismatch"]
                    /\ qd.collections = l.pre
                    /\ rad.instances = l.pre_instances

\* an initialisation has just failed on a collection of another dimension
\* that holds ingested points
C19_Witness ==
    /\ rad.active
    /\ rad.last.op = "init" /\ rad.last.reached /\ rad.last.raised
    /\ rad.last.error.cause = "Dimension mismatch"
    /\ qd.collections[rad.last.inst.collection_name].exists
    /\ Len(qd.collections[rad.last.inst.collection_name].points) = MaxStored

\* C20: delete_collection without confirm=True fails with the
\* confirmation-required error and leaves every collection and its points
\* as they were; with confirm=True and every request to the index served it
\* ends with the collection existing, empty and of the size of the object's
\* embedding dimension, the other collections untouched.
C20_DeleteNeedsConfirm ==
    (rad.active /\ rad.last.op = "delete")
      => LET l == rad.last
             name == l.inst.collection_name
         IN /\ ~l.confirm
                 => /\ l.raised
                    /\ l.error = [type |-> "ValueError",
                                  cause |-> "Collection deletion requires explicit confirmation"]
                    /\ qd.collections = l.pre
            /\ (l.confirm /\ l.reachable)
                 => /\ ~l.raised
                    /\ qd.collections[name] =
                         [ exists |-> TRUE, size |-> l.inst.embedding_dim,
                           points |-> << >> ]
                    /\ \A c \in CollectionNames \ { name } :
                         qd.collections[c] = l.pre[c]

\* a confirmed deletion has just emptied a collection that held points
C20_Witness ==
    /\ rad.active /\ rad.last.op = "delete"
    /\ rad.last.confirm /\ rad.last.reachable /\ ~rad.last.raised
    /\ Len(rad.last.pre[rad.last.inst.collection_name].points) = MaxStored
    /\ qd.collections[rad.last.inst.collection_name].points = << >>
    /\ qd.collections[rad.last.inst.collection_name].exists


(***************************************************************************)
(* Properties of BM25, stated on the latest call on the object (bm).       *)
(***************************************************************************)
\* document d2 has more occurrences of one query token than d and as many
\* of every other token
MoreOfOneQueryToken(d, d2, query_tokens) ==
    \E t \in TokenSet(query_tokens) :
      /\ CountOf(Tokenize(d2), t) > CountOf(Tokenize(d), t)
      /\ \A k \in DOMAIN Vocabulary :
           Vocabulary[k] # t
             => CountOf(Tokenize(d2), Vocabulary[k]) = CountOf(Tokenize(d), Vocabulary[k])

ScoredAgain(i, d2) == GetScores(bm.bm25, bm.query, [bm.corpus EXCEPT ![i] = d2])

\* C21: for a fixed query and a fitted BM25 object, a document with more
\* occurrences of one query token and everything else equal (the fitted
\* lengths, average length and idf, and the counts of all other tokens) does
\* not score lower than the document it replaces.
C21_MonotoneInTf ==
    (bm.active /\ bm.op = "get_scores" /\ bm.outcome.raised = "none")
      => \A i \in DOMAIN bm.corpus : \A d2 \in Docs :
           MoreOfOneQueryToken(bm.corpus[i], d2, Tokenize(bm.query))
             => /\ ScoredAgain(i, d2).raised = "none"
                /\ ScoredAgain(i, d2).scores[i] >= bm.outcome.scores[i]

\* the fitted corpus was scored, a document has a positive score, and with
\* one more occurrence of a query token it scores strictly higher
C21_Witness ==
    /\ bm.active /\ bm.op = "get_scores" /\ bm.outcome.raised = "none"
    /\ bm.corpus = bm.fitted
    /\ \E i \in DOMAIN bm.corpus : \E d2 \in Docs :
         /\ MoreOfOneQueryToken(bm.corpus[i], d2, Tokenize(bm.query))
         /\ bm.outcome.scores[i] > 0
         /\ ScoredAgain(i, d2).scores[i] > bm.outcome.scores[i]


\* C30: get_scores on the corpus that was just fitted returns one score per
\* document and raises nothing, for every query and corpus, documents
\* without tokens and an average length of 0 included: the idf map is empty
\* whenever the average length is 0, and for every query token in the idf
\* map the average length and the denominator
\* tf + k1*(1 - b + b*doc_len/avgdl) are strictly positive.
C30_NoDivisionByZero ==
    (bm.active /\ bm.op = "get_scores" /\ bm.corpus = bm.fitted)
      => /\ bm.outcome.raised = "none"
         /\ Len(bm.outcome.scores) = Len(bm.corpus)
         /\ bm.bm25.avgdl.sum = 0 => bm.bm25.idf = << >>
         /\ \A i \in DOMAIN bm.corpus :
              \A q \in DOMAIN Tokenize(bm.query) :
                TokenInIdf(bm.bm25, Tokenize(bm.query)[q])
                  => /\ bm.bm25.avgdl.sum > 0
                     /\ DenominatorNum(bm.bm25,
                                       CountOf(Tokenize(bm.corpus[i]), Tokenize(bm.query)[q]),
                                       bm.bm25.doc_lengths[i]) > 0

\* a corpus of MaxCorpus documents without any token (average length 0)
\* was fitted and scored against a query that has tokens
C30_Witness ==
    /\ bm.active /\ bm.op = "get_scores" /\ bm.corpus = bm.fitted
    /\ Len(bm.corpus) = MaxCorpus
    /\ bm.bm25.avgdl.sum = 0
    /\ Tokenize(bm.query) # << >>
    /\ bm.outcome = [ raised |-> "none", scores |-> [i \in 1..MaxCorpus |-> 0] ]


CutOffMeansNoProgress ==
    (ck.active /\ ck.pc = "loop" /\ Len(ck.chunks) >= MaxChunks)
      => /\ ck.chunk_size - ck.overlap < 1
         /\ Len(ck.tokens) > 0
         /\ ck.start <= 0
         /\ ck.start < Len(ck.tokens)


(***************************************************************************)
(* What a file's ingestion wrote to the index.                             *)
(***************************************************************************)
EmbeddingRaised(f) ==
    /\ ing.seen[f].raised = "none"
    /\ ing.seen[f].chunks # << >>
    /\ Threw(f)
    /\ ing.thrown[f] # UpsertRaised

\* C28: a file reported failed because reading, chunking or embedding
\* raised, or reported skipped, has sent nothing to the index; upsert is
\* called at most once per file, never before the file's ingestion has its
\* embeddings, and only for a file that was read, has chunks and whose
\* embedding call returned.
C28_FailedWritesNothing ==
    ing.active
      => \A f \in DOMAIN ing.files :
           LET u == UpsertsOf(ing.files[f]) IN
             /\ Len(u) <= 1
             /\ ~Handled(f) => u = << >>
             /\ ( /\ Handled(f)
                  /\ \/ ing.file_results[f].status = "skipped"
                     \/ /\ ing.file_results[f].status = "failed"
                        /\ ing.thrown[f] # UpsertRaised )
                  => u = << >>
             /\ u # << >>
                  => /\ ing.seen[f].raised = "none"
                     /\ ing.seen[f].chunks # << >>
                     /\ ing.thrown[f] \in { NoError, UpsertRaised }

\* a returned run in which one file failed on its embeddings, one on its
\* read, one was skipped or written, and only written files reached the index
C28_Witness ==
    /\ DirReturned
    /\ \E f, g \in DOMAIN ing.files :
         /\ EmbeddingRaised(f)
         /\ ing.file_results[f].status = "failed"
         /\ UpsertsOf(ing.files[f]) = << >>
         /\ ing.file_results[g].status = "success"
         /\ Len(UpsertsOf(ing.files[g])) = 1
    /\ \E f \in DOMAIN ing.files :
         /\ ing.seen[f].raised # "none"
         /\ UpsertsOf(ing.files[f]) = << >>


(***************************************************************************)
(* Counters and cache of one provider over a sequence of calls.            *)
(***************************************************************************)
CacheEntries(c) == { k \in Keys : c[k] # NoVec }

\* the texts for which the backend has returned a vector
EmbeddedTexts == { t \in Texts : computed[t] # NoVec }

CountersMatchCache ==
    /\ total_embeddings = Cardinality(CacheEntries(cache))
    /\ Cardinality(CacheEntries(cache)) = Cardinality(EmbeddedTexts)
    /\ CacheEntries(cache) = { CacheKey(t) : t \in EmbeddedTexts }

FailedCall == last.op # "none" /\ last.status = "error"

BackendFailed == FailedCall /\ last.error.type = "RuntimeError"

Untouched ==
    /\ cache = last.pre.cache
    /\ total_embeddings = last.pre.total_embeddings
    /\ cached_embeddings = last.pre.cached_embeddings

\* the texts of the last call: the argument of embed, the list of embed_batch
ArgTexts ==
    IF last.op = "embed" THEN { last.arg }
    ELSE { last.arg[i] : i \in DOMAIN last.arg }

\* C27 as stated: after any sequence of embed and embed_batch calls,
\* failing ones included, total_embeddings is the number of cache entries
\* and the number of distinct texts embedded successfully, and every call
\* whose backend invocation failed left the cache, total_embeddings and
\* cached_embeddings as they were before the call.
C27_FailedCallChangesNothing ==
    /\ CountersMatchCache
    /\ BackendFailed => Untouched

\* C27: after any sequence of embed and embed_batch calls, failing ones
\* included, total_embeddings is the number of cache entries and the number
\* of distinct texts embedded successfully; a call that failed on blank
\* input and an embed call whose backend invocation failed left the cache
\* and both counters unchanged; an embed_batch call whose backend invocation
\* failed kept what the embeds before the failing one did: the new cache
\* entries are keys of texts of the batch, total_embeddings grew by their
\* number and cached_embeddings by less than the number of texts.
C27_CountersMatchCache ==
    /\ CountersMatchCache
    /\ (FailedCall /\ last.error.type = "ValueError") => Untouched
    /\ (BackendFailed /\ last.op = "embed") => Untouched
    /\ (BackendFailed /\ last.op = "embed_batch")
         => LET new == CacheEntries(cache) \ CacheEntries(last.pre.cache) IN
            /\ \A k \in Keys : last.pre.cache[k] # NoVec => cache[k] = last.pre.cache[k]
            /\ new \subseteq { CacheKey(t) : t \in ArgTexts }
            /\ total_embeddings = last.pre.total_embeddings + Cardinality(new)
            /\ cached_embeddings >= last.pre.cached_embeddings
            /\ cached_embeddings - last.pre.cached_embeddings < Len(last.arg)

\* an embed_batch call failed on its second text after storing the first:
\* the backend was invoked once more than it returned a vector
C27_Witness ==
    /\ BackendFailed /\ last.op = "embed_batch"
    /\ Len(last.arg) = 2
    /\ total_embeddings = last.pre.total_embeddings + 1
    /\ cache[CacheKey(last.arg[1])] # NoVec
    /\ last.pre.cache[CacheKey(last.arg[1])] = NoVec
    /\ backend_calls = total_embeddings + 1


(***************************************************************************)
(* Concurrent embed calls.                                                 *)
(***************************************************************************)
AllReturned == th.active /\ \A i \in DOMAIN th.calls : th.calls[i].pc = "done"

ReturnedVector == { i \in DOMAIN th.calls : th.calls[i].status = "ok" }

\* C25: once all concurrent embed calls on one provider have returned,
\* cached_embeddings + total_embeddings is the number of calls that returned
\* a vector, and every cache entry holds a vector the backend returned for
\* the text of its key.
C25_NoLostUpdate ==
    AllReturned
      => /\ cached_embeddings + total_embeddings = Cardinality(ReturnedVector)
         /\ \A t \in Texts :
              cache[CacheKey(t)] # NoVec => cache[CacheKey(t)] \in th.answers[t]


(***************************************************************************)
(* Properties of HybridRetriever.search, stated on the observed call:      *)
(* hr.last.hits and hr.last.hits2 are the index's answers, hr.last.pre the *)
(* BM25 object the call found, hr.last.dense_results and                   *)
(* hr.last.sparse_results the two lists a hybrid call fused.               *)
(***************************************************************************)
Observed(mode) == hr.active /\ hr.last.mode = mode /\ ~hr.last.outcome.raised

PosOf(results, id) == CHOOSE k \in DOMAIN results : results[k].id = id

\* 1/(60 + rank + 1) for each list that holds the id, rank counted from 0
FusedScore(dense_results, sparse_results, id) ==
    LET d == IF id \in IdsOf(dense_results)
               THEN << 1, RRF_K_DEFAULT + PosOf(dense_results, id) >>
               ELSE << 0, 1 >>
        s == IF id \in IdsOf(sparse_results)
               THEN << 1, RRF_K_DEFAULT + PosOf(sparse_results, id) >>
               ELSE << 0, 1 >>
    IN FracAdd(d, s)

\* C23: a hybrid search returns min(top_k, number of distinct ids in the
\* dense and the sparse list) results; each id occurs once; each result
\* carries its fused score and the text and score of the first list that
\* holds its id, the dense list before the sparse one; the results are in
\* non-increasing order of fused score, and no id left out has a strictly
\* higher fused score than a returned one.
C23_HybridResult ==
    Observed("hybrid")
      => LET out == hr.last.outcome.results
             d == hr.last.dense_results
             s == hr.last.sparse_results
             all == IdsOf(d) \cup IdsOf(s)
         IN /\ Len(out) = Min(hr.last.top_k, Cardinality(all))
            /\ \A i, j \in DOMAIN out : out[i].id = out[j].id => i = j
            /\ \A i \in DOMAIN out :
                 /\ out[i].id \in all
                 /\ FracEq(out[i].rrf_score, FusedScore(d, s, out[i].id))
                 /\ LET first == IF out[i].id \in IdsOf(d)
                                   THEN d[PosOf(d, out[i].id)]
                                   ELSE s[PosOf(s, out[i].id)]
                    IN out[i].text = first.text /\ out[i].score = first.score
            /\ \A i \in 1..(Len(out) - 1) :
                 FracLeq(out[i + 1].rrf_score, out[i].rrf_score)
            /\ \A id \in all \ IdsOf(out) :
                 \A i \in DOMAIN out :
                   FracLeq(FusedScore(d, s, id), out[i].rrf_score)

\* a hybrid search whose sparse list holds an id the dense list lacks and
\* whose fused pool is larger than top_k
C23_Witness ==
    /\ Observed("hybrid")
    /\ ~(IdsOf(hr.last.sparse_results) \subseteq IdsOf(hr.last.dense_results))
    /\ IdsOf(hr.last.sparse_results) \cap IdsOf(hr.last.dense_results) # {}
    /\ Cardinality(IdsOf(hr.last.dense_results) \cup IdsOf(hr.last.sparse_results))
         > hr.last.top_k
    /\ Len(hr.last.outcome.results) = hr.last.top_k


\* the first initial_k points of the index's answer
Pool == Take(hr.last.hits2, hr.last.initial_k)

PoolTexts == [i \in DOMAIN Pool |-> Pool[i].text]

\* the BM25 scores of the pool from an object that was never used before
FreshScores == GetScores(Fit(NewBM25, PoolTexts), hr.last.query, PoolTexts).scores

\* C24: a sparse search returns min(top_k, c) results, c being the number
\* of dense candidates under the limit initial_k; every result is one of the
\* candidates with its score replaced by its BM25 score; the results are in
\* non-increasing order of that score; with no candidate the result is
\* empty and BM25 is neither fitted nor asked for scores.
C24_SparseResult ==
    Observed("sparse")
      => LET out == hr.last.outcome.results
             c == Min(hr.last.initial_k, Len(hr.last.hits))
         IN /\ Len(out) = Min(hr.last.top_k, c)
            /\ \A i, j \in DOMAIN out : out[i].id = out[j].id => i = j
            /\ \A bm25_scores \in { FreshScores } :
                 \A i \in DOMAIN out :
                   \E k \in 1..c :
                     out[i] = [ id |-> hr.last.hits[k].id,
                                text |-> hr.last.hits[k].text,
                                score |-> bm25_scores[k] ]
            /\ \A i \in 1..(Len(out) - 1) : out[i + 1].score <= out[i].score
            /\ c = 0 => (out = << >> /\ hr.bm25 = hr.last.pre)

\* a sparse search over more candidates than top_k that puts a candidate
\* in front of one the index had ranked nearer, on a retriever used before
C24_Witness ==
    /\ Observed("sparse")
    /\ hr.last.pre # NewBM25
    /\ Len(hr.last.hits) > hr.last.top_k
    /\ hr.last.initial_k > hr.last.top_k
    /\ Len(hr.last.outcome.results) = hr.last.top_k
    /\ hr.last.outcome.results[1].id = hr.last.hits[2].id
    /\ hr.last.outcome.results[1].score # Similarity(2)


OutcomesFrom(bm25) ==
    { o.outcome : o \in SearchIn(bm25, hr.last.mode, hr.last.query, hr.last.top_k,
                                 hr.last.initial_k, hr.last.hits, hr.last.hits2) }

\* C26: the retriever keeps no state between calls: a sparse or hybrid
\* search returns what a retriever that was never used returns for the same
\* query, top_k, initial_k and index answers, whatever searches came before
\* it, and after it corpus_size, doc_lengths, avgdl and idf are those of a
\* fit of its own candidates alone.
C26_NoStateBetweenCalls ==
    (hr.active /\ hr.last.mode \in { "sparse", "hybrid" })
      => /\ \A unused \in { OutcomesFrom(NewBM25) } :
              /\ OutcomesFrom(hr.last.pre) = unused
              /\ hr.last.outcome \in unused
         /\ (~hr.last.outcome.raised /\ Pool # << >>)
              => LET fresh == Fit(NewBM25, PoolTexts) IN
                 /\ hr.bm25.corpus_size = fresh.corpus_size
                 /\ hr.bm25.doc_lengths = fresh.doc_lengths
                 /\ hr.bm25.avgdl = fresh.avgdl
                 /\ hr.bm25.idf = fresh.idf

\* a search that returned results on a retriever whose BM25 object had been
\* fitted on a corpus of another size, average length and vocabulary
C26_Witness ==
    /\ hr.active /\ hr.last.mode \in { "sparse", "hybrid" }
    /\ ~hr.last.outcome.raised
    /\ hr.last.outcome.results # << >>
    /\ hr.last.pre.corpus_size > 0
    /\ hr.last.pre.corpus_size # hr.bm25.corpus_size
    /\ hr.last.pre.avgdl # hr.bm25.avgdl
    /\ hr.last.pre.idf # hr.bm25.idf


\* C29: in a hybrid search to which the index gave the same answer twice,
\* the dense and the sparse list hold the same ids, the sparse list being a
\* reordering of the initial_k dense candidates with their BM25 scores; so
\* the fused score of every result is the sum of two terms, one per list,
\* and the fused pool has at most initial_k ids.
C29_SameCandidates ==
    (Observed("hybrid") /\ hr.last.hits2 = hr.last.hits)
      => LET out == hr.last.outcome.results
             d == hr.last.dense_results
             s == hr.last.sparse_results
         IN /\ IdsOf(d) = IdsOf(s)
            /\ Len(s) = Len(d)
            /\ \A bm25_scores \in { FreshScores } :
                 \A k \in DOMAIN s :
                   /\ s[k].text = d[PosOf(d, s[k].id)].text
                   /\ s[k].score = bm25_scores[PosOf(d, s[k].id)]
            /\ Cardinality(IdsOf(d) \cup IdsOf(s)) <= hr.last.initial_k
            /\ \A i \in DOMAIN out :
                 FracEq(out[i].rrf_score,
                        FracAdd(<< 1, RRF_K_DEFAULT + PosOf(d, out[i].id) >>,
                                << 1, RRF_K_DEFAULT + PosOf(s, out[i].id) >>))

\* a hybrid search over two candidates, answered the same twice, in which
\* BM25 reversed the order of the index and top_k is below the pool size
C29_Witness ==
    /\ Observed("hybrid") /\ hr.last.hits2 = hr.last.hits
    /\ Len(hr.last.dense_results) = 2
    /\ hr.last.sparse_results[1].id = hr.last.dense_results[2].id
    /\ hr.last.top_k < 2
    /\ Len(hr.last.outcome.results) = hr.last.top_k

==============================================================================
